---- MODULE Spec2Model ----
(***************************************************************************)
(* Streaming tool-calling orchestration loop of the Stripe MCP chat        *)
(* backend: the /api/chat-stream handler (backend/server.js), the tool     *)
(* executor (executeToolCall), the JSON-RPC client (lib/mcp/stripe-mcp.js) *)
(* and the tool catalog cache (lib/mcp/tools.js).                          *)
(*                                                                         *)
(* JavaScript values are modelled as follows.  A text whose characters     *)
(* matter (content, tool arguments) is a sequence of one-character         *)
(* strings, so that += is \o; a text of which only equality and emptiness  *)
(* matter (ids, names, error messages) is a string, "" standing for an     *)
(* absent or empty value (both are falsy in the code).  null is None,      *)
(* a present value x is Some(x).                                           *)
(***************************************************************************)
EXTENDS Integers, Sequences, FiniteSets, TLC

None == <<>>
Some(x) == <<x>>

(* Requests served by the handler; Callers are the callers of              *)
(* getStripeTools: the requests and two direct callers of the module.      *)
Requests == {"r1", "r2"}
DirectCallers == {"c1", "c2"}
Callers == Requests \cup DirectCallers

(* ---- bounds of the model ---- *)
MaxTicks == 3
MaxChunks == 3

(* ---- program constants ---- *)
CACHE_TTL == 60 * 60 * 1000
MAX_ITERATIONS == 10

(* Date.now() advances in steps of half a time-to-live, so that an age     *)
(* below, equal to and above CACHE_TTL all occur.                          *)
ClockStep == CACHE_TTL \div 2
ClockStart == 2 * CACHE_TTL
ClockMax == ClockStart + MaxTicks * ClockStep

VARIABLES
    clock,            \* Date.now()
    stripeKey,        \* process.env.STRIPE_SECRET_KEY is set
    dat1Key,          \* process.env.DAT1_API_KEY is set
    cachedTools,      \* tools.js cachedTools: None (null) or Some(list)
    cacheTimestamp,   \* tools.js cacheTimestamp
    gpc,              \* per caller of getStripeTools: idle/fetching/returned/threw
    gnow,             \* per caller: the `now` read at the call
    gforce,           \* per caller: the forceRefresh argument
    gret,             \* per caller: the returned list (Some) or None
    gseen,            \* per caller: the cache and timestamp the call found
    gfetched,         \* per caller: the call went on to listStripeMCPTools
    glisted,          \* per caller: Some(the list the service returned), None before or on failure
    pc,               \* per request: where the /api/chat-stream handler stands
    body,             \* per request: req.body.messages
    conv,             \* per request: conversationMessages
    tools,            \* per request: the tools of the handler
    iterationCount,   \* per request: iterationCount
    turn,             \* per request: accumulatedContent, toolCalls, finalData, hasToolCalls
    exec,             \* per request: the promises of toolCalls.map, by position
    execOrder,        \* per request: positions of the tool calls in the order they completed
    out,              \* per request: what was written to res, in order
    ended,            \* per request: res.end() was called
    provLog,          \* per request: the provider requests sent, in order
    disconnected,     \* per request: the caller has closed the connection
    signals,          \* per request: tool signals in the payloads read this turn
    fragLog,          \* per request: the fragments merged this turn, in order
    streamed,         \* per request: chunks read so far, over all turns
    lastMeta,         \* per request: the last usage/timings record of the stream of this turn
    listCalls         \* per request: the getStripeTools calls the handler has made

catalogVars == <<cachedTools, cacheTimestamp, gpc, gnow, gforce, gret, gseen, gfetched, glisted>>
envVars == <<stripeKey, dat1Key>>
handlerVars == <<pc, body, conv, tools, iterationCount, turn, exec, execOrder, out, ended,
                 provLog, disconnected, signals, fragLog, streamed, lastMeta, listCalls>>

(***************************************************************************)
(* lib/mcp/stripe-mcp.js                                                   *)
(***************************************************************************)

(* What the transport can answer to one JSON-RPC request: fetch rejects,   *)
(* a non-2xx status, a body that is a JSON-RPC error, or a body with a     *)
(* result.                                                                 *)
Ok(v) == [ok |-> TRUE, value |-> v]
Throw(m) == [ok |-> FALSE, error |-> m]

NetError == [k |-> "neterr"]
HttpError == [k |-> "http"]
RpcError == [k |-> "rpcerr"]
RpcResult(res) == [k |-> "result", result |-> res]

(* callStripeMCP: the credential check, then the fetch and its checks.     *)
(* `answer` is what the transport answers when the request is sent.        *)
CallStripeMCP(key, answer) ==
    IF ~key THEN Throw("STRIPE_SECRET_KEY is not configured")
    ELSE IF answer.k = "neterr" THEN Throw("fetch failed")
    ELSE IF answer.k = "http" THEN Throw("MCP server error")
    ELSE IF answer.k = "rpcerr" THEN Throw("MCP error")
    ELSE Ok(answer)

(* Whether callStripeMCP sends the request at all. *)
Dispatches(key) == key

(* MCP tool definitions as listed by the service. *)
McpTool(n, d) == [name |-> n, description |-> d]
ToolsNone == [tools |-> None]
ToolsOf(l) == [tools |-> Some(l)]

(* listStripeMCPTools: response.result?.tools || [] *)
ListStripeMCPTools(key, answer) ==
    LET r == CallStripeMCP(key, answer)
    IN IF ~r.ok THEN r
       ELSE IF r.value.result.tools = None THEN Ok(<<>>)
       ELSE Ok(r.value.result.tools[1])

(***************************************************************************)
(* lib/mcp/tools.js                                                        *)
(***************************************************************************)

ConvertMCPToolToOpenAI(mcpTool) ==
    [type |-> "function",
     name |-> mcpTool.name,
     description |-> IF mcpTool.description = ""
                     THEN "Execute " \o mcpTool.name \o " on Stripe"
                     ELSE mcpTool.description,
     parameters |-> [type |-> "object"]]

MapConvert(l) == [i \in 1..Len(l) |-> ConvertMCPToolToOpenAI(l[i])]

(* CacheValid with the age compared by <= : a cache exactly one            *)
(* time-to-live old is still served.                                       *)
CacheValidInclusive(force, cache, stamp, now) ==
    /\ ~force
    /\ cache # None
    /\ now - stamp <= CACHE_TTL

(* The guard of the cached return: !forceRefresh && cachedTools !== null   *)
(* && now - cacheTimestamp < CACHE_TTL.                                    *)
CacheValid(force, cache, stamp, now) ==
    /\ ~force
    /\ cache # None
    /\ now - stamp < CACHE_TTL

(* getStripeTools up to its first await: read the clock, return the cache  *)
(* when it is valid, otherwise start listStripeMCPTools.                   *)
GetToolsBegin(c, force) ==
    /\ gpc[c] = "idle"
    /\ gnow' = [gnow EXCEPT ![c] = clock]
    /\ gforce' = [gforce EXCEPT ![c] = force]
    /\ gseen' = [gseen EXCEPT ![c] = [tools |-> cachedTools, stamp |-> cacheTimestamp]]
    /\ glisted' = [glisted EXCEPT ![c] = None]
    /\ IF CacheValid(force, cachedTools, cacheTimestamp, clock)
       THEN /\ gpc' = [gpc EXCEPT ![c] = "returned"]
            /\ gret' = [gret EXCEPT ![c] = cachedTools]
            /\ gfetched' = [gfetched EXCEPT ![c] = FALSE]
       ELSE /\ gpc' = [gpc EXCEPT ![c] = "fetching"]
            /\ gret' = [gret EXCEPT ![c] = None]
            /\ gfetched' = [gfetched EXCEPT ![c] = TRUE]
    /\ UNCHANGED <<cachedTools, cacheTimestamp>>

(* The cache filled with the fetched list short of its last tool. *)
CacheAfterFetchPartial(list, now) ==
    [tools |-> Some(MapConvert(SubSeq(list, 1, Len(list) - 1))), stamp |-> now]

(* The cache after a successful fetch: the whole converted list, stamped   *)
(* with the `now` read when the call began.                                *)
CacheAfterFetch(list, now) == [tools |-> Some(MapConvert(list)), stamp |-> now]

(* CacheAfterFailure dropping the cache when the fetch fails.              *)
CacheAfterFailureCleared(cache, stamp) == [tools |-> None, stamp |-> 0]

(* The catch branch: the cache when there is one, otherwise the error      *)
(* propagates.                                                             *)
CacheAfterFailure(cache, stamp) == [tools |-> cache, stamp |-> stamp]

(* getStripeTools after the await: the try body or the catch.              *)
GetToolsEnd(c, answer) ==
    /\ gpc[c] = "fetching"
    /\ LET r == ListStripeMCPTools(stripeKey, answer)
       IN IF r.ok
          THEN LET n == CacheAfterFetch(r.value, gnow[c])
               IN /\ glisted' = [glisted EXCEPT ![c] = Some(r.value)]
                  /\ cachedTools' = n.tools
                  /\ cacheTimestamp' = n.stamp
                  /\ gret' = [gret EXCEPT ![c] = n.tools]
                  /\ gpc' = [gpc EXCEPT ![c] = "returned"]
          ELSE LET n == CacheAfterFailure(cachedTools, cacheTimestamp)
               IN /\ glisted' = glisted
                  /\ cachedTools' = n.tools
                  /\ cacheTimestamp' = n.stamp
                  /\ gret' = [gret EXCEPT ![c] = n.tools]
                  /\ gpc' = [gpc EXCEPT ![c] = IF n.tools # None THEN "returned" ELSE "threw"]
    /\ UNCHANGED <<gnow, gforce, gseen, gfetched>>

(* clearToolCache *)
ClearToolCache ==
    /\ cachedTools' = None
    /\ cacheTimestamp' = 0
    /\ UNCHANGED <<gpc, gnow, gforce, gret, gseen, gfetched, glisted>>

(* The caller takes the result; the caller may call again. *)
GetToolsTaken(c) ==
    /\ gpc[c] \in {"returned", "threw"}
    /\ gpc' = [gpc EXCEPT ![c] = "idle"]
    /\ gret' = [gret EXCEPT ![c] = None]
    /\ gnow' = [gnow EXCEPT ![c] = 0]
    /\ gforce' = [gforce EXCEPT ![c] = FALSE]
    /\ gseen' = [gseen EXCEPT ![c] = [tools |-> None, stamp |-> 0]]
    /\ gfetched' = [gfetched EXCEPT ![c] = FALSE]
    /\ glisted' = [glisted EXCEPT ![c] = None]
    /\ UNCHANGED <<cachedTools, cacheTimestamp>>

(* Time passes. *)
Tick ==
    /\ clock < ClockMax
    /\ clock' = clock + ClockStep

(* What the tool-listing service can answer. *)
ListedTools ==
    { <<>>,
      <<McpTool("retrieve_balance", "Balance"), McpTool("create_customer", "")>> }

ListAnswers ==
    {NetError, HttpError, RpcError, RpcResult(ToolsNone)}
        \cup {RpcResult(ToolsOf(l)) : l \in ListedTools}

(***************************************************************************)
(* backend/server.js: parseSSEChunk                                        *)
(***************************************************************************)

(* The lines of a decoded provider chunk: 'data: [DONE]', a 'data: ' line  *)
(* whose payload is not JSON, and a 'data: ' line with a JSON payload.     *)
(* Of the payload the fields the handler reads are kept: whether           *)
(* choices[0] exists, delta.content, delta.tool_calls, message.tool_calls, *)
(* finish_reason, and usage/timings (meta, "" when the record has none).   *)
DoneLine == [line |-> "done"]
BadLine == [line |-> "bad"]
DataLine(rec) == [line |-> "data", rec |-> rec]

Payload(choice, content, frags, list, finish, meta) ==
    [choice |-> choice, content |-> content, tool_calls |-> frags,
     message_tool_calls |-> list, finish_reason |-> finish, meta |-> meta]

(* A fragment of delta.tool_calls: index (None when absent), id,           *)
(* function.name and function.arguments ("" and <<>> when absent).         *)
Fragment(index, id, name, arguments) ==
    [index |-> index, id |-> id, type |-> "", name |-> name, arguments |-> arguments]

(* Payloads that are JSON but not of the expected shape: a null element   *)
(* in delta.tool_calls, and a delta.tool_calls that is not a list (a       *)
(* number, an object), written as the value NotIterable.                   *)
NullFragment == [null |-> TRUE]
NotIterable == <<[notIterable |-> TRUE]>>

(* parseSSEChunk: the first 'data: ' line decides.  [DONE] returns null;   *)
(* a payload that parses is returned at once; one that does not parse is   *)
(* skipped.  None is null.                                                 *)
RECURSIVE ParseSSEChunk(_)
ParseSSEChunk(chunk) ==
    IF chunk = <<>> THEN None
    ELSE LET l == Head(chunk)
         IN IF l.line = "done" THEN None
            ELSE IF l.line = "data" THEN Some(l.rec)
            ELSE ParseSSEChunk(Tail(chunk))

(* chunk.includes('[DONE]') *)
ChunkIncludesDone(chunk) == \E i \in 1..Len(chunk) : chunk[i].line = "done"

(***************************************************************************)
(* backend/server.js: the tool-call accumulator of the stream loop         *)
(***************************************************************************)

(* An array slot that was never assigned. *)
Hole == [hole |-> TRUE]

(* An id given by the provider, `call_${Date.now()}_${index}`, and the id  *)
(* of a tool call of a message.tool_calls list that has no id member.      *)
AbsentId == [noid |-> TRUE]
GivenId(s) == [id |-> s]
GeneratedId(now, index) == [call |-> now, index |-> index]

ToolCall(id, name, arguments) ==
    [id |-> id, type |-> "function", name |-> name, arguments |-> arguments]

(* toolCalls[index] = v on a JavaScript array: the array grows to          *)
(* index + 1, the slots in between stay holes.                             *)
SetAt(arr, index, v) ==
    [j \in 1..(IF index + 1 > Len(arr) THEN index + 1 ELSE Len(arr)) |->
        IF j = index + 1 THEN v
        ELSE IF j <= Len(arr) THEN arr[j]
        ELSE Hole]

(* !toolCalls[index] *)
NoBuilderAt(arr, index) == index + 1 > Len(arr) \/ arr[index + 1] = Hole

(* MergeFragment overwriting id and name with whatever the fragment        *)
(* carries, an absent value included.                                      *)
MergeFragmentBlanking(toolCalls, toolCall, now) ==
    LET index == IF toolCall.index = None THEN 0 ELSE toolCall.index[1]
    IN IF NoBuilderAt(toolCalls, index)
       THEN SetAt(toolCalls, index,
                  [id |-> IF toolCall.id # "" THEN GivenId(toolCall.id)
                          ELSE GeneratedId(now, index),
                   type |-> IF toolCall.type # "" THEN toolCall.type ELSE "function",
                   name |-> toolCall.name,
                   arguments |-> toolCall.arguments])
       ELSE [toolCalls EXCEPT ![index + 1] =
                [@ EXCEPT !.arguments = @ \o toolCall.arguments,
                          !.id = GivenId(toolCall.id),
                          !.name = toolCall.name]]

(* The body of `for (const toolCall of choice.delta.tool_calls)`. *)
MergeFragment(toolCalls, toolCall, now) ==
    LET index == IF toolCall.index = None THEN 0 ELSE toolCall.index[1]
    IN IF NoBuilderAt(toolCalls, index)
       THEN SetAt(toolCalls, index,
                  [id |-> IF toolCall.id # "" THEN GivenId(toolCall.id)
                          ELSE GeneratedId(now, index),
                   type |-> IF toolCall.type # "" THEN toolCall.type ELSE "function",
                   name |-> toolCall.name,
                   arguments |-> toolCall.arguments])
       ELSE [toolCalls EXCEPT ![index + 1] =
                [@ EXCEPT !.arguments = @ \o toolCall.arguments,
                          !.id = IF toolCall.id # "" THEN GivenId(toolCall.id) ELSE @,
                          !.name = IF toolCall.name # "" THEN toolCall.name ELSE @]]

RECURSIVE MergeFragments(_, _, _)
MergeFragments(toolCalls, frags, now) ==
    IF frags = <<>> THEN toolCalls
    ELSE MergeFragments(MergeFragment(toolCalls, Head(frags), now), Tail(frags), now)

(* The state of one turn: lines 244-247. *)
NewTurn ==
    [accumulatedContent |-> <<>>, toolCalls |-> <<>>, finalData |-> None,
     hasToolCalls |-> FALSE]

(* Lines 268-321: what one parsed payload does to the state of the turn. *)
ProcessParsed(t, parsed, now) ==
    IF ~parsed.choice THEN t
    ELSE LET t1 == [t EXCEPT !.accumulatedContent = @ \o parsed.content]
             t2 == IF parsed.tool_calls # None
                   THEN [t1 EXCEPT !.hasToolCalls = TRUE,
                                   !.toolCalls = MergeFragments(@, parsed.tool_calls[1], now)]
                   ELSE t1
             t3 == IF parsed.message_tool_calls # None
                   THEN [t2 EXCEPT !.hasToolCalls = TRUE,
                                   !.toolCalls = parsed.message_tool_calls[1]]
                   ELSE t2
             t4 == IF parsed.finish_reason = "tool_calls"
                   THEN [t3 EXCEPT !.hasToolCalls = TRUE]
                   ELSE t3
         IN IF parsed.meta # "" THEN [t4 EXCEPT !.finalData = Some(parsed)] ELSE t4

(* Lines 279-302 on a payload of an unexpected shape: `for ... of` over a  *)
(* value that is not iterable, and toolCall.index on null, throw a         *)
(* TypeError out of the stream loop.                                       *)
ProcessThrows(parsed) ==
    /\ parsed.choice
    /\ parsed.tool_calls # None
    /\ \/ parsed.tool_calls[1] = NotIterable
       \/ \E i \in 1..Len(parsed.tool_calls[1]) : parsed.tool_calls[1][i] = NullFragment

ThrownMessage(parsed) ==
    IF parsed.tool_calls[1] = NotIterable
    THEN "choice.delta.tool_calls is not iterable"
    ELSE "Cannot read properties of null (reading 'index')"

(* Whether the chunk is forwarded to the caller: line 273. *)
ForwardsContent(parsed) == parsed.choice /\ parsed.content # <<>>

(* The decision taken on the flag alone, without the length test. *)
RequiresToolsFlagOnly(t) == t.hasToolCalls

(* The decision of line 325. *)
RequiresTools(t) == t.hasToolCalls /\ Len(t.toolCalls) > 0

(***************************************************************************)
(* backend/server.js: executeToolCall                                      *)
(***************************************************************************)

(* JSON.parse of an arguments text over the characters "{" and "}":        *)
(* only "{}" is JSON.                                                      *)
JsonParse(text) ==
    IF text = <<"{", "}">> THEN Ok("object") ELSE Throw("Unexpected token")

(* callStripeMCPTool: response.result, undefined when the body has none.   *)
NoResult == [absent |-> TRUE]
CallStripeMCPTool(key, answer) ==
    LET r == CallStripeMCP(key, answer)
    IN IF r.ok THEN Ok(r.value.result) ELSE r

(* Results of tools/call: a list of typed content blocks, or an object     *)
(* without one.                                                            *)
Block(type, text) == [type |-> type, text |-> text]
ContentResult(blocks) == [content |-> Some(blocks)]
PlainResult == [content |-> None]

(* The values executeToolCall returns: a text taken from a block, the      *)
(* JSON text of a value, and undefined (JSON.stringify(undefined)).        *)
TextOf(s) == [text |-> s]
JsonOf(v) == [json |-> v]
UndefinedValue == [undefined |-> TRUE]
ErrorText(m) == JsonOf([error |-> m])

(* result.content.find(item => item.type === 'text'): None when no block   *)
(* has type 'text'.                                                        *)
RECURSIVE FindText(_)
FindText(blocks) ==
    IF blocks = <<>> THEN None
    ELSE IF Head(blocks).type = "text" THEN Some(Head(blocks))
    ELSE FindText(Tail(blocks))

(* Lines 104-114. *)
NormalizeResult(result) ==
    IF result = NoResult THEN UndefinedValue
    ELSE LET textContent == IF result.content # None THEN FindText(result.content[1]) ELSE None
         IN IF textContent # None /\ textContent[1].text # ""
            THEN TextOf(textContent[1].text)
            ELSE JsonOf(result)

(* The try body of executeToolCall: lines 87-114. *)
ExecuteTry(key, toolArguments, answer) ==
    LET parsedArgs == IF toolArguments # <<>> THEN JsonParse(toolArguments) ELSE Ok("object")
    IN IF ~parsedArgs.ok THEN Throw("Invalid tool arguments JSON")
       ELSE LET result == CallStripeMCPTool(key, answer)
            IN IF ~result.ok THEN result
               ELSE Ok(NormalizeResult(result.value))

(* Whether executeToolCall reaches the fetch of callStripeMCP. *)
ExecuteDispatches(key, toolArguments) ==
    /\ toolArguments # <<>> => JsonParse(toolArguments).ok
    /\ Dispatches(key)

(* executeToolCall without its catch: a failure propagates. *)
ExecuteToolCallUncaught(key, toolArguments, answer) ==
    ExecuteTry(key, toolArguments, answer)

(* executeToolCall: the try body, and the catch that turns every failure   *)
(* into the text of {error: message}.                                      *)
ExecuteToolCall(key, toolArguments, answer) ==
    LET r == ExecuteTry(key, toolArguments, answer)
    IN IF r.ok THEN r ELSE Ok(ErrorText(r.error))

(***************************************************************************)
(* backend/server.js: app.post('/api/chat-stream')                         *)
(***************************************************************************)

UserMsg(text) == [role |-> "user", content |-> text]
AssistantMsg(content, toolCalls) ==
    [role |-> "assistant", content |-> content, tool_calls |-> toolCalls]
ToolMsg(content, id) == [role |-> "tool", content |-> content, tool_call_id |-> id]
(* An undefined element of toolResults, pushed like any other. *)
UndefinedMsg == [undefined |-> TRUE]

(* What the handler writes to res. *)
JsonError500 == [k |-> "json500", error |-> "DAT1_API_KEY is not configured"]
ChunkEvent(chunk) == [k |-> "chunk", chunk |-> chunk]
DoneEvent == [k |-> "done"]
FinalEvent(parsed) == [k |-> "final", data |-> parsed]
ErrorEvent(m) == [k |-> "error", error |-> m]

(* The promise of one position of toolCalls.map: a hole of the array, a    *)
(* call waiting for the RPC service, or a settled call.  sent tells        *)
(* whether a tools/call request went to the RPC service, answer what the   *)
(* service answered to it; ret is what executeToolCall returned (Ok) or    *)
(* threw (Throw).                                                          *)
ExecHole == [st |-> "hole", sent |-> FALSE, answer |-> None, ret |-> None]
ExecPending == [st |-> "pending", sent |-> TRUE, answer |-> None, ret |-> None]
ExecSettled(sent, answer, r) ==
    [st |-> "done", sent |-> sent, answer |-> answer, ret |-> Some(r)]

HandlerInit ==
    /\ pc = [r \in Requests |-> "idle"]
    /\ body = [r \in Requests |-> <<>>]
    /\ conv = [r \in Requests |-> <<>>]
    /\ tools = [r \in Requests |-> <<>>]
    /\ iterationCount = [r \in Requests |-> 0]
    /\ turn = [r \in Requests |-> NewTurn]
    /\ exec = [r \in Requests |-> <<>>]
    /\ execOrder = [r \in Requests |-> <<>>]
    /\ out = [r \in Requests |-> <<>>]
    /\ ended = [r \in Requests |-> FALSE]
    /\ provLog = [r \in Requests |-> <<>>]
    /\ disconnected = [r \in Requests |-> FALSE]
    /\ signals = [r \in Requests |-> {}]
    /\ fragLog = [r \in Requests |-> <<>>]
    /\ streamed = [r \in Requests |-> 0]
    /\ lastMeta = [r \in Requests |-> None]
    /\ listCalls = [r \in Requests |-> 0]

(* A request body without a messages member (req.body.messages is         *)
(* undefined), and what the framework answers when the handler's promise   *)
(* rejects, if the framework in use handles that at all.                   *)
AbsentMessages == <<[absent |-> TRUE]>>
FrameworkError500 == [k |-> "framework500"]

(* Lines 180-195: the request arrives.  messages.length of line 183 is     *)
(* read before the try: without a messages member the TypeError leaves     *)
(* the handler, and either the framework answers for it or nothing ever    *)
(* answers.  Without DAT1_API_KEY the request is answered with status      *)
(* 500, otherwise getStripeTools() is called.                              *)
Receive(r, messages) ==
    /\ pc[r] = "idle"
    /\ gpc[r] = "idle"
    /\ body' = [body EXCEPT ![r] = messages]
    /\ IF messages = AbsentMessages
       THEN /\ \E handled \in BOOLEAN :
                 IF handled
                 THEN /\ out' = [out EXCEPT ![r] = Append(@, FrameworkError500)]
                      /\ ended' = [ended EXCEPT ![r] = TRUE]
                      /\ pc' = [pc EXCEPT ![r] = "done"]
                 ELSE /\ pc' = [pc EXCEPT ![r] = "escaped"]
                      /\ UNCHANGED <<out, ended>>
            /\ UNCHANGED <<catalogVars, listCalls>>
       ELSE IF ~dat1Key
       THEN /\ out' = [out EXCEPT ![r] = Append(@, JsonError500)]
            /\ ended' = [ended EXCEPT ![r] = TRUE]
            /\ pc' = [pc EXCEPT ![r] = "done"]
            /\ UNCHANGED <<catalogVars, listCalls>>
       ELSE /\ GetToolsBegin(r, FALSE)
            /\ listCalls' = [listCalls EXCEPT ![r] = @ + 1]
            /\ pc' = [pc EXCEPT ![r] = "tools"]
            /\ UNCHANGED <<out, ended>>
    /\ UNCHANGED <<clock, envVars, conv, tools, iterationCount, turn, exec, execOrder,
                   provLog, disconnected, signals, fragLog, streamed, lastMeta>>

(* The tool-listing service answers the handler's getStripeTools call. *)
ToolsAnswer(r, answer) ==
    /\ pc[r] = "tools"
    /\ GetToolsEnd(r, answer)
    /\ UNCHANGED <<clock, envVars, handlerVars>>

(* Lines 195-212: the await of getStripeTools() resumes; a failure leaves  *)
(* tools = [].  The conversation starts as a copy of the messages.         *)
ToolsReady(r) ==
    /\ pc[r] = "tools"
    /\ gpc[r] \in {"returned", "threw"}
    /\ tools' = [tools EXCEPT ![r] = IF gpc[r] = "returned" THEN gret[r][1] ELSE <<>>]
    /\ GetToolsTaken(r)
    /\ conv' = [conv EXCEPT ![r] = body[r]]
    /\ iterationCount' = [iterationCount EXCEPT ![r] = 0]
    /\ pc' = [pc EXCEPT ![r] = "loop"]
    /\ UNCHANGED <<clock, envVars, body, turn, exec, execOrder, out, ended, provLog,
                   disconnected, signals, fragLog, streamed, lastMeta, listCalls>>

(* The request body with a tools field whatever the list holds. *)
Dat1RequestBodyAlwaysTools(messages, toolList) ==
    [messages |-> messages, tools |-> Some(toolList)]

(* makeDat1Request, lines 139-150: the tools field is set only when the    *)
(* list is not empty.                                                      *)
Dat1RequestBody(messages, toolList) ==
    [messages |-> messages,
     tools |-> IF Len(toolList) > 0 THEN Some(toolList) ELSE None]

(* The conversation being the caller's list itself instead of a copy. *)
MessagesAliased(messages, conversation) == conversation

(* Line 211: conversationMessages is a copy ([...messages]); a push to it  *)
(* leaves req.body.messages as it was.                                     *)
MessagesAfterPush(messages, conversation) == messages

(* The loop condition with the ceiling included: one round too many. *)
LoopContinuesInclusive(count) == count <= MAX_ITERATIONS

(* The loop condition of line 216. *)
LoopContinues(count) == count < MAX_ITERATIONS

(* Lines 216-223 and 388-392: the head of the loop.  Below the ceiling the *)
(* count is incremented and one provider request is sent with the          *)
(* conversation and the tools; at the ceiling the error event is written   *)
(* and the response is ended.                                              *)
CatalogCallsPerIteration(calls) == calls + 1

(* Lines 216-223: the loop body makes no call of getStripeTools; the one   *)
(* call of the request is at line 195, before the loop.                    *)
CatalogCallsInIteration(calls) == calls

LoopHead(r) ==
    /\ pc[r] = "loop"
    /\ listCalls' = [listCalls EXCEPT ![r] =
                        IF LoopContinues(iterationCount[r])
                        THEN CatalogCallsInIteration(@) ELSE @]
    /\ IF LoopContinues(iterationCount[r])
       THEN /\ iterationCount' = [iterationCount EXCEPT ![r] = @ + 1]
            /\ provLog' = [provLog EXCEPT ![r] =
                              Append(@, Dat1RequestBody(conv[r], tools[r]))]
            /\ pc' = [pc EXCEPT ![r] = "requesting"]
            /\ UNCHANGED <<out, ended>>
       ELSE /\ out' = [out EXCEPT ![r] = Append(@, ErrorEvent("Maximum iterations reached"))]
            /\ ended' = [ended EXCEPT ![r] = TRUE]
            /\ pc' = [pc EXCEPT ![r] = "done"]
            /\ UNCHANGED <<iterationCount, provLog>>
    /\ UNCHANGED <<clock, envVars, catalogVars, body, conv, tools, turn, exec, execOrder,
                   disconnected, signals, fragLog, streamed, lastMeta>>

(* What the provider can answer to a request: the fetch rejects, a         *)
(* non-success status, a success without a readable body, a success with   *)
(* a stream.                                                               *)
ProviderOk == [k |-> "ok"]
ProviderNotOk(errorText) == [k |-> "notok", text |-> errorText]
ProviderResponses ==
    {[k |-> "neterr"], ProviderNotOk("rate limited"), ProviderNotOk(""),
     [k |-> "nobody"], ProviderOk}

(* The provider's failure written with the end sentinel after it. *)
ProviderErrorWritesWithSentinel(response) ==
    <<ErrorEvent(CASE response.k = "neterr" -> "fetch failed"
                   [] response.k = "notok" -> "dat1 API error: " \o response.text
                   [] response.k = "nobody" -> "Response body is not readable"),
      DoneEvent>>

(* Lines 227-242 and 393-399: what a failed provider request writes: one   *)
(* error event, with the raw body of a non-success response.               *)
ProviderErrorWrites(response) ==
    <<ErrorEvent(CASE response.k = "neterr" -> "fetch failed"
                   [] response.k = "notok" -> "dat1 API error: " \o response.text
                   [] response.k = "nobody" -> "Response body is not readable")>>

(* Lines 223-247: the provider answers.  Every failure writes one error    *)
(* event and ends the response; a stream starts a turn.                    *)
ProviderResponds(r, response) ==
    /\ pc[r] = "requesting"
    /\ IF response.k = "ok"
       THEN /\ turn' = [turn EXCEPT ![r] = NewTurn]
            /\ signals' = [signals EXCEPT ![r] = {}]
            /\ fragLog' = [fragLog EXCEPT ![r] = <<>>]
            /\ streamed' = streamed
            /\ lastMeta' = [lastMeta EXCEPT ![r] = None]
            /\ pc' = [pc EXCEPT ![r] = "streaming"]
            /\ UNCHANGED <<out, ended>>
       ELSE /\ out' = [out EXCEPT ![r] = @ \o ProviderErrorWrites(response)]
            /\ ended' = [ended EXCEPT ![r] = TRUE]
            /\ pc' = [pc EXCEPT ![r] = "done"]
            /\ UNCHANGED <<turn, signals, fragLog, streamed, lastMeta>>
    /\ UNCHANGED <<clock, envVars, catalogVars, body, conv, tools, iterationCount, exec,
                   execOrder, provLog, disconnected, listCalls>>

(* The tool signals a payload carries: a fragment, a direct tool_calls     *)
(* list, the finish reason 'tool_calls'.                                   *)
SignalsOf(parsed) ==
    IF ~parsed.choice THEN {}
    ELSE (IF parsed.tool_calls # None /\ parsed.tool_calls # Some(<<>>) THEN {"fragment"} ELSE {})
         \cup (IF parsed.message_tool_calls # None THEN {"list"} ELSE {})
         \cup (IF parsed.finish_reason = "tool_calls" THEN {"finish"} ELSE {})

(* What one chunk makes the handler write: lines 260-266 and 273-277. *)
ChunkWrites(chunk) ==
    LET parsed == ParseSSEChunk(chunk)
    IN IF parsed = None
       THEN (IF ChunkIncludesDone(chunk) THEN <<DoneEvent>> ELSE <<>>)
       ELSE (IF ForwardsContent(parsed[1]) THEN <<ChunkEvent(chunk)>> ELSE <<>>)

(* The last record of the stream that carries usage or timings, over all  *)
(* the 'data: ' records of the chunks, with or without a choices entry.    *)
RECURSIVE LastMetaOf(_, _)
LastMetaOf(chunk, last) ==
    IF chunk = <<>> THEN last
    ELSE LastMetaOf(Tail(chunk),
                    IF Head(chunk).line = "data" /\ Head(chunk).rec.meta # ""
                    THEN Some(Head(chunk).rec) ELSE last)

(* The calls of the list so far started while the stream is still read. *)
ExecDuringStreamEager(execs, t) ==
    [i \in 1..Len(t.toolCalls) |-> IF t.toolCalls[i] = Hole THEN ExecHole ELSE ExecPending]

(* Lines 250-322: the stream loop starts no tool call; the promises are    *)
(* created after the loop, at line 338.                                    *)
ExecDuringStream(execs, t) == execs

(* Lines 250-322: one reader.read() that yields a chunk.  A TypeError      *)
(* thrown while the payload is processed goes to the catch of lines        *)
(* 393-399: the error event is written and the response is ended.          *)
ReadChunk(r, chunk) ==
    /\ pc[r] = "streaming"
    /\ LET parsed == ParseSSEChunk(chunk)
       IN IF parsed = None
          THEN /\ out' = [out EXCEPT ![r] = @ \o ChunkWrites(chunk)]
               /\ UNCHANGED <<turn, signals, fragLog, pc, ended>>
          ELSE IF ProcessThrows(parsed[1])
          THEN /\ out' = [out EXCEPT ![r] = @ \o ChunkWrites(chunk)
                                              \o <<ErrorEvent(ThrownMessage(parsed[1]))>>]
               /\ ended' = [ended EXCEPT ![r] = TRUE]
               /\ pc' = [pc EXCEPT ![r] = "done"]
               /\ turn' = [turn EXCEPT ![r].accumulatedContent = @ \o parsed[1].content]
               /\ UNCHANGED <<signals, fragLog>>
          ELSE /\ out' = [out EXCEPT ![r] = @ \o ChunkWrites(chunk)]
               /\ turn' = [turn EXCEPT ![r] = ProcessParsed(@, parsed[1], clock)]
               /\ signals' = [signals EXCEPT ![r] = @ \cup SignalsOf(parsed[1])]
               /\ fragLog' = [fragLog EXCEPT ![r] =
                                 IF parsed[1].choice /\ parsed[1].tool_calls # None
                                 THEN @ \o parsed[1].tool_calls[1] ELSE @]
               /\ UNCHANGED <<pc, ended>>
    /\ streamed' = [streamed EXCEPT ![r] = @ + 1]
    /\ lastMeta' = [lastMeta EXCEPT ![r] = LastMetaOf(chunk, @)]
    /\ exec' = [exec EXCEPT ![r] = ExecDuringStream(@, turn'[r])]
    /\ UNCHANGED <<clock, envVars, catalogVars, body, conv, tools, iterationCount,
                   execOrder, provLog, disconnected, listCalls>>

(* reader.read() rejects: the catch of lines 393-399. *)
ReadFails(r) ==
    /\ pc[r] = "streaming"
    /\ out' = [out EXCEPT ![r] = Append(@, ErrorEvent("terminated"))]
    /\ ended' = [ended EXCEPT ![r] = TRUE]
    /\ pc' = [pc EXCEPT ![r] = "done"]
    /\ UNCHANGED <<clock, envVars, catalogVars, body, conv, tools, iterationCount, turn, exec,
                   execOrder, provLog, disconnected, signals, fragLog, streamed, lastMeta, listCalls>>

(* toolCalls.map(async ...) of lines 338-346: every call of the array is   *)
(* started at once.  A call whose arguments do not parse, or made without  *)
(* the Stripe credential, settles without a request to the RPC service.    *)
StartExec(key, toolCalls) ==
    [i \in 1..Len(toolCalls) |->
        IF toolCalls[i] = Hole THEN ExecHole
        ELSE IF ExecuteDispatches(key, toolCalls[i].arguments) THEN ExecPending
        ELSE ExecSettled(FALSE, None, ExecuteToolCall(key, toolCalls[i].arguments, NetError))]

(* Lines 376-385: what the terminal turn writes. *)
FinalWrites(t) ==
    (IF t.finalData # None THEN <<FinalEvent(t.finalData[1])>> ELSE <<>>) \o <<DoneEvent>>

(* The terminal turn pushing its content as an assistant message. *)
ConvAfterFinalAppended(c, t) ==
    Append(c, AssistantMsg(IF t.accumulatedContent # <<>>
                           THEN Some(t.accumulatedContent) ELSE None, <<>>))

(* The conversation after the terminal turn: nothing is appended. *)
ConvAfterFinal(c, t) == c

(* Lines 253-255 and 324-385: the stream ends and the turn is decided.     *)
(* With tool calls the assistant message is pushed and the calls are       *)
(* started; without, the final data and [DONE] are written and the         *)
(* response is ended.                                                      *)
ReadDone(r) ==
    /\ pc[r] = "streaming"
    /\ IF RequiresTools(turn[r])
       THEN /\ conv' = [conv EXCEPT ![r] = Append(@, AssistantMsg(
                          IF turn[r].accumulatedContent # <<>>
                          THEN Some(turn[r].accumulatedContent) ELSE None,
                          turn[r].toolCalls))]
            /\ exec' = [exec EXCEPT ![r] = StartExec(stripeKey, turn[r].toolCalls)]
            /\ execOrder' = [execOrder EXCEPT ![r] = <<>>]
            /\ pc' = [pc EXCEPT ![r] = "executing"]
            /\ UNCHANGED <<out, ended>>
       ELSE /\ out' = [out EXCEPT ![r] = @ \o FinalWrites(turn[r])]
            /\ conv' = [conv EXCEPT ![r] = ConvAfterFinal(@, turn[r])]
            /\ ended' = [ended EXCEPT ![r] = TRUE]
            /\ pc' = [pc EXCEPT ![r] = "done"]
            /\ UNCHANGED <<exec, execOrder>>
    /\ body' = [body EXCEPT ![r] = MessagesAfterPush(@, conv'[r])]
    /\ UNCHANGED <<clock, envVars, catalogVars, tools, iterationCount, turn, provLog,
                   disconnected, signals, fragLog, streamed, lastMeta, listCalls>>

(* The RPC service answers the tools/call request of position i. *)
ToolAnswer(r, i, answer) ==
    /\ pc[r] = "executing"
    /\ i \in 1..Len(exec[r])
    /\ exec[r][i].st = "pending"
    /\ exec' = [exec EXCEPT ![r][i] =
                   ExecSettled(TRUE, Some(answer),
                       ExecuteToolCall(stripeKey, turn[r].toolCalls[i].arguments, answer))]
    /\ execOrder' = [execOrder EXCEPT ![r] = Append(@, i)]
    /\ UNCHANGED <<clock, envVars, catalogVars, pc, body, conv, tools, iterationCount, turn,
                   out, ended, provLog, disconnected, signals, fragLog, streamed, lastMeta, listCalls>>

(* Lines 342-362: the message of one settled call; a throw of              *)
(* executeToolCall becomes an error text as well.                          *)
ToolResultMessage(toolCall, r) ==
    IF r.ok THEN ToolMsg(r.value, toolCall.id)
    ELSE ToolMsg(ErrorText(r.error), toolCall.id)

(* The positions of the calls that settled without a request, in order. *)
RECURSIVE UnsentPositions(_, _)
UnsentPositions(execs, i) ==
    IF i > Len(execs) THEN <<>>
    ELSE (IF execs[i].st = "done" /\ ~execs[i].sent THEN <<i>> ELSE <<>>)
         \o UnsentPositions(execs, i + 1)

(* toolResults pushed before the last call has settled: its message is     *)
(* missing.                                                                *)
ToolResultsWithoutLast(toolCalls, execs, order) ==
    [i \in 1..(Len(toolCalls) - 1) |->
        IF execs[i].st = "hole" THEN UndefinedMsg
        ELSE ToolResultMessage(toolCalls[i], execs[i].ret[1])]

(* toolResults with every result pushed twice. *)
ToolResultsDoubled(toolCalls, execs, order) ==
    [j \in 1..(2 * Len(toolCalls)) |->
        LET i == ((j - 1) % Len(toolCalls)) + 1
        IN IF execs[i].st = "hole" THEN UndefinedMsg
           ELSE ToolResultMessage(toolCalls[i], execs[i].ret[1])]

(* toolResults filled as the calls complete instead of by position. *)
ToolResultsByCompletion(toolCalls, execs, order) ==
    LET done == UnsentPositions(execs, 1) \o order
    IN [j \in 1..Len(done) |-> ToolResultMessage(toolCalls[done[j]], execs[done[j]].ret[1])]

(* toolResults: Promise.all keeps the positions of toolCalls.map; a hole   *)
(* of the array yields undefined.                                          *)
ToolResults(toolCalls, execs, order) ==
    [i \in 1..Len(toolCalls) |->
        IF execs[i].st = "hole" THEN UndefinedMsg
        ELSE ToolResultMessage(toolCalls[i], execs[i].ret[1])]

(* Lines 364-373: Promise.all resolves once every call has settled; the    *)
(* results are pushed and the loop continues.                              *)
ToolsDone(r) ==
    /\ pc[r] = "executing"
    /\ \A i \in 1..Len(exec[r]) : exec[r][i].st # "pending"
    /\ conv' = [conv EXCEPT ![r] = @ \o ToolResults(turn[r].toolCalls, exec[r], execOrder[r])]
    /\ pc' = [pc EXCEPT ![r] = "loop"]
    /\ body' = [body EXCEPT ![r] = MessagesAfterPush(@, conv'[r])]
    /\ UNCHANGED <<clock, envVars, catalogVars, tools, iterationCount, turn, exec,
                   execOrder, out, ended, provLog, disconnected, signals, fragLog, streamed, lastMeta, listCalls>>

(* The caller closes the connection.  The handler registers no listener    *)
(* for it and reads no state of the connection.                            *)
Disconnect(r) ==
    /\ pc[r] \notin {"idle", "done"}
    /\ ~disconnected[r]
    /\ disconnected' = [disconnected EXCEPT ![r] = TRUE]
    /\ UNCHANGED <<clock, envVars, catalogVars, pc, body, conv, tools, iterationCount, turn,
                   exec, execOrder, out, ended, provLog, signals, fragLog, streamed, lastMeta, listCalls>>

(***************************************************************************)
(* The tool catalog on its own: direct callers of getStripeTools, forced   *)
(* and not, overlapping, while time passes.                                *)
(***************************************************************************)
ModuleInit ==
    /\ clock = ClockStart
    /\ cachedTools = None
    /\ cacheTimestamp = 0
    /\ gpc = [c \in Callers |-> "idle"]
    /\ gnow = [c \in Callers |-> 0]
    /\ gforce = [c \in Callers |-> FALSE]
    /\ gret = [c \in Callers |-> None]
    /\ gseen = [c \in Callers |-> [tools |-> None, stamp |-> 0]]
    /\ gfetched = [c \in Callers |-> FALSE]
    /\ glisted = [c \in Callers |-> None]
    /\ HandlerInit

CatalogInit ==
    /\ stripeKey \in BOOLEAN
    /\ dat1Key = TRUE
    /\ ModuleInit

vars == <<clock, stripeKey, dat1Key, cachedTools, cacheTimestamp, gpc, gnow, gforce, gret,
          gseen, gfetched, glisted, pc, body, conv, tools, iterationCount, turn, exec,
          execOrder, out, ended, provLog, disconnected, signals, fragLog, streamed, lastMeta, listCalls>>

CatalogCall(c) ==
    /\ \E force \in BOOLEAN : GetToolsBegin(c, force)
    /\ UNCHANGED <<clock, envVars, handlerVars>>

CatalogAnswer(c) ==
    /\ \E answer \in ListAnswers : GetToolsEnd(c, answer)
    /\ UNCHANGED <<clock, envVars, handlerVars>>

CatalogTaken(c) ==
    /\ GetToolsTaken(c)
    /\ UNCHANGED <<clock, envVars, handlerVars>>

CatalogTick ==
    /\ Tick
    /\ UNCHANGED <<envVars, catalogVars, handlerVars>>

CatalogNext ==
    \/ \E c \in DirectCallers : CatalogCall(c)
    \/ \E c \in DirectCallers : CatalogAnswer(c)
    \/ \E c \in DirectCallers : CatalogTaken(c)
    \/ CatalogTick

SpecCatalog == CatalogInit /\ [][CatalogNext]_vars

(***************************************************************************)
(* One request served by /api/chat-stream, from its arrival to res.end().  *)
(* The provider streams any of the chunks of StreamChunks, at most         *)
(* MaxChunks of them over the request; the RPC service answers every       *)
(* tools/call in any order.                                                *)
(***************************************************************************)
Init ==
    /\ stripeKey \in BOOLEAN
    /\ dat1Key \in BOOLEAN
    /\ ModuleInit

Text(s) == <<s>>
NoArgs == <<>>

ContentChunk == <<DataLine(Payload(TRUE, Text("x"), None, None, "", ""))>>
FragmentChunk ==
    <<DataLine(Payload(TRUE, <<>>,
        Some(<<Fragment(Some(0), "a", "retrieve_balance", NoArgs)>>), None, "", ""))>>
TwoFragmentsChunk ==
    <<DataLine(Payload(TRUE, <<>>,
        Some(<<Fragment(Some(0), "a", "retrieve_balance", NoArgs),
               Fragment(Some(1), "b", "create_customer", <<"{", "}">>)>>), None, "", ""))>>
FinishToolCallsChunk == <<DataLine(Payload(TRUE, <<>>, None, None, "tool_calls", ""))>>
UsageChunk == <<DataLine(Payload(TRUE, <<>>, None, None, "stop", "u1"))>>
DirectListChunk ==
    <<DataLine(Payload(TRUE, <<>>, None,
        Some(<<ToolCall(GivenId("m"), "retrieve_balance", NoArgs)>>), "", ""))>>
EmptyListChunk == <<DataLine(Payload(TRUE, <<>>, None, Some(<<>>), "", ""))>>
DoneChunk == <<DoneLine>>

StreamChunks ==
    {ContentChunk, FragmentChunk, TwoFragmentsChunk, FinishToolCallsChunk, UsageChunk,
     DirectListChunk, EmptyListChunk, DoneChunk}

(* What the RPC service answers to tools/call. *)
BalanceResult == ContentResult(<<Block("text", "available 1000")>>)
ToolAnswers == {NetError, RpcResult(BalanceResult)}

(* What the tool-listing service answers the handler. *)
HandlerListAnswers ==
    {NetError, RpcResult(ToolsOf(<<McpTool("retrieve_balance", "Balance")>>))}

Bodies == {<<UserMsg("check balance")>>}

(* The steps of one request, with their inputs drawn from the sets above. *)
Arrive(r) == \E messages \in Bodies : Receive(r, messages)
ListAnswered(r) == \E answer \in HandlerListAnswers : ToolsAnswer(r, answer)
Respond(r) == \E response \in ProviderResponses : ProviderResponds(r, response)
Stream(r) ==
    /\ streamed[r] < MaxChunks
    /\ \E chunk \in StreamChunks : ReadChunk(r, chunk)
Answered(r) == \E i \in 1..Len(exec[r]) : \E answer \in ToolAnswers : ToolAnswer(r, i, answer)

Serve(r) ==
    \/ Arrive(r)
    \/ ListAnswered(r)
    \/ ToolsReady(r)
    \/ LoopHead(r)
    \/ Respond(r)
    \/ Stream(r)
    \/ ReadFails(r)
    \/ ReadDone(r)
    \/ Answered(r)
    \/ ToolsDone(r)
    \/ Disconnect(r)

Next == Serve("r1")

Spec == Init /\ [][Next]_vars

(***************************************************************************)
(* A model that asks for a tool in every turn: each stream carries a       *)
(* tool-call fragment, with or without the finish reason, and ends only    *)
(* after it; the provider and the RPC service always answer.               *)
(***************************************************************************)
CeilingInit ==
    /\ stripeKey \in BOOLEAN
    /\ dat1Key = TRUE
    /\ ModuleInit

CeilingChunks == {FragmentChunk, FinishToolCallsChunk}

RespondOk(r) == ProviderResponds(r, ProviderOk)
AnsweredOk(r) == \E i \in 1..Len(exec[r]) : ToolAnswer(r, i, RpcResult(BalanceResult))
StreamTool(r) ==
    \E chunk \in CeilingChunks :
        /\ ~(SignalsOf(ParseSSEChunk(chunk)[1]) \subseteq signals[r])
        /\ ReadChunk(r, chunk)
ReadDoneTool(r) ==
    /\ "fragment" \in signals[r]
    /\ ReadDone(r)

ServeCeiling(r) ==
    \/ Arrive(r)
    \/ ListAnswered(r)
    \/ ToolsReady(r)
    \/ LoopHead(r)
    \/ RespondOk(r)
    \/ StreamTool(r)
    \/ ReadDoneTool(r)
    \/ AnsweredOk(r)
    \/ ToolsDone(r)

NextCeiling == ServeCeiling("r1")

SpecCeiling == CeilingInit /\ [][NextCeiling]_vars /\ WF_vars(NextCeiling)

(***************************************************************************)
(* The accumulator on one turn: the stream carries tool-call fragments     *)
(* only, with every combination of index, id, name and arguments delta.    *)
(***************************************************************************)
FragmentIndexes == {None, Some(2)}
FragmentIdNames == {<<"", "">>, <<"a", "retrieve_balance">>, <<"b", "create_customer">>}
FragmentDeltas == {<<>>, <<"{">>, <<"}">>}

Fragments ==
    {Fragment(i, n[1], n[2], d) :
        i \in FragmentIndexes, n \in FragmentIdNames, d \in FragmentDeltas}

FragmentChunks ==
    {<<DataLine(Payload(TRUE, <<>>, Some(<<f>>), None, "", ""))>> : f \in Fragments}
        \cup {TwoFragmentsChunk}

StreamFragments(r) ==
    /\ streamed[r] < MaxChunks
    /\ \E chunk \in FragmentChunks : ReadChunk(r, chunk)

ServeAccumulator(r) ==
    \/ Arrive(r)
    \/ ListAnswered(r)
    \/ ToolsReady(r)
    \/ LoopHead(r)
    \/ RespondOk(r)
    \/ StreamFragments(r)
    \/ ReadDone(r)

NextAccumulator == ServeAccumulator("r1")

AccumulatorInit ==
    /\ stripeKey = TRUE
    /\ dat1Key = TRUE
    /\ ModuleInit

SpecAccumulator == AccumulatorInit /\ [][NextAccumulator]_vars

(***************************************************************************)
(* The tool executor: one tool turn whose calls come as a direct list,     *)
(* with arguments that parse and arguments that do not, and every answer   *)
(* of the RPC service.                                                     *)
(***************************************************************************)
ArgumentTexts == {<<>>, <<"{", "}">>, <<"{">>, <<"}", "{">>}

CallChunks ==
    {<<DataLine(Payload(TRUE, <<>>, None,
         Some(<<ToolCall(GivenId("m"), "retrieve_balance", a)>>), "", ""))>> :
        a \in ArgumentTexts}
    \cup {<<DataLine(Payload(TRUE, <<>>, None,
             Some(<<ToolCall(GivenId("m"), "retrieve_balance", <<"{">>),
                    ToolCall(GivenId("n"), "create_customer", <<"{", "}">>)>>), "", ""))>>}

ExecutorAnswers ==
    {NetError, HttpError, RpcError,
     RpcResult(NoResult), RpcResult(PlainResult), RpcResult(BalanceResult),
     RpcResult(ContentResult(<<Block("image", "")>>)),
     RpcResult(ContentResult(<<Block("text", "")>>))}

StreamCalls(r) ==
    /\ iterationCount[r] = 1
    /\ turn[r].toolCalls = <<>>
    /\ \E chunk \in CallChunks : ReadChunk(r, chunk)

AnsweredAny(r) ==
    \E i \in 1..Len(exec[r]) : \E answer \in ExecutorAnswers : ToolAnswer(r, i, answer)

ServeExecutor(r) ==
    \/ Arrive(r)
    \/ ListAnswered(r)
    \/ ToolsReady(r)
    \/ LoopHead(r)
    \/ RespondOk(r)
    \/ StreamCalls(r)
    \/ ReadDone(r)
    \/ AnsweredAny(r)
    \/ ToolsDone(r)

NextExecutor == ServeExecutor("r1")

SpecExecutor == CeilingInit /\ [][NextExecutor]_vars

(***************************************************************************)
(* Chunks as the transport cuts them: several 'data: ' records in one      *)
(* chunk, lines that are not JSON, and JSON of an unexpected shape.        *)
(***************************************************************************)
ContentRecord(s) == DataLine(Payload(TRUE, Text(s), None, None, "", ""))
FragmentRecord == DataLine(Payload(TRUE, <<>>,
                      Some(<<Fragment(Some(0), "a", "retrieve_balance", NoArgs)>>), None, "", ""))
UsageRecord == DataLine(Payload(TRUE, <<>>, None, None, "stop", "u1"))

TwoContentsChunk == <<ContentRecord("x"), ContentRecord("y")>>
ContentThenFragmentChunk == <<ContentRecord("x"), FragmentRecord>>
ContentThenUsageChunk == <<ContentRecord("x"), UsageRecord>>
BadChunk == <<BadLine>>
BadThenContentChunk == <<BadLine, ContentRecord("y")>>
NullFragmentChunk ==
    <<DataLine(Payload(TRUE, <<>>, Some(<<NullFragment>>), None, "", ""))>>
NotIterableChunk ==
    <<DataLine(Payload(TRUE, <<>>, Some(NotIterable), None, "", ""))>>

RecordChunks ==
    {ContentChunk, FragmentChunk, TwoContentsChunk, ContentThenFragmentChunk,
     ContentThenUsageChunk, BadChunk, BadThenContentChunk, NullFragmentChunk,
     NotIterableChunk}

StreamRecords(r) ==
    /\ streamed[r] < MaxChunks
    /\ \E chunk \in RecordChunks : ReadChunk(r, chunk)

ServeRecords(r) ==
    \/ Arrive(r)
    \/ ListAnswered(r)
    \/ ToolsReady(r)
    \/ LoopHead(r)
    \/ RespondOk(r)
    \/ StreamRecords(r)
    \/ ReadDone(r)
    \/ AnsweredOk(r)
    \/ ToolsDone(r)

NextRecords == ServeRecords("r1")

SpecRecords == CeilingInit /\ [][NextRecords]_vars

(***************************************************************************)
(* Tool turns whose calls come at indices that are not contiguous, or in   *)
(* a direct list, with or without ids, followed by further turns.          *)
(***************************************************************************)
SparseFragmentChunk ==
    <<DataLine(Payload(TRUE, <<>>,
        Some(<<Fragment(Some(2), "c", "create_customer", NoArgs)>>), None, "", ""))>>
IdlessListChunk ==
    <<DataLine(Payload(TRUE, <<>>, None,
        Some(<<ToolCall(AbsentId, "retrieve_balance", NoArgs)>>), "", ""))>>

SparseChunks ==
    {ContentChunk, FragmentChunk, SparseFragmentChunk, DirectListChunk, IdlessListChunk}

StreamSparse(r) ==
    /\ streamed[r] < MaxChunks
    /\ \E chunk \in SparseChunks : ReadChunk(r, chunk)

ServeSparse(r) ==
    \/ Arrive(r)
    \/ ListAnswered(r)
    \/ ToolsReady(r)
    \/ LoopHead(r)
    \/ RespondOk(r)
    \/ StreamSparse(r)
    \/ ReadDone(r)
    \/ Answered(r)
    \/ ToolsDone(r)

NextSparse == ServeSparse("r1")

SpecSparse == AccumulatorInit /\ [][NextSparse]_vars

(***************************************************************************)
(* Two requests served at the same time while the clock may or may not     *)
(* advance; the provider sends tool-call fragments that carry no id, so    *)
(* that the handler generates the ids.                                     *)
(***************************************************************************)
IdlessFragmentChunk ==
    <<DataLine(Payload(TRUE, <<>>,
        Some(<<Fragment(Some(0), "", "retrieve_balance", NoArgs)>>), None, "", ""))>>

StreamIdless(r) ==
    /\ streamed[r] < MaxChunks
    /\ turn[r].toolCalls = <<>>
    /\ ReadChunk(r, IdlessFragmentChunk)

ListAnsweredOk(r) ==
    ToolsAnswer(r, RpcResult(ToolsOf(<<McpTool("retrieve_balance", "Balance")>>)))

ServeIds(r) ==
    \/ Arrive(r)
    \/ ListAnsweredOk(r)
    \/ ToolsReady(r)
    \/ LoopHead(r)
    \/ RespondOk(r)
    \/ StreamIdless(r)
    \/ ReadDone(r)
    \/ AnsweredOk(r)
    \/ ToolsDone(r)

NextIds == ServeIds("r1") \/ ServeIds("r2") \/ CatalogTick

SpecIds == AccumulatorInit /\ [][NextIds]_vars

(***************************************************************************)
(* Two requests served at the same time, each with its own messages, its   *)
(* own content and its own tool-call ids.                                  *)
(***************************************************************************)
OwnText(r) == IF r = "r1" THEN "check balance" ELSE "list customers"
OwnDelta(r) == IF r = "r1" THEN "x" ELSE "y"
OwnId(r) == IF r = "r1" THEN "a" ELSE "b"
OwnBody(r) == <<UserMsg(OwnText(r))>>

OwnChunks(r) ==
    {<<ContentRecord(OwnDelta(r))>>,
     <<DataLine(Payload(TRUE, <<>>,
         Some(<<Fragment(Some(0), OwnId(r), "retrieve_balance", NoArgs)>>), None, "", ""))>>}

ArriveOwn(r) == Receive(r, OwnBody(r))
StreamOwn(r) ==
    /\ streamed[r] < MaxChunks
    /\ \E chunk \in OwnChunks(r) : ReadChunk(r, chunk)

ServeConcurrent(r) ==
    \/ ArriveOwn(r)
    \/ ListAnsweredOk(r)
    \/ ToolsReady(r)
    \/ LoopHead(r)
    \/ RespondOk(r)
    \/ StreamOwn(r)
    \/ ReadDone(r)
    \/ AnsweredOk(r)
    \/ ToolsDone(r)

NextConcurrent == ServeConcurrent("r1") \/ ServeConcurrent("r2")

SpecConcurrent == AccumulatorInit /\ [][NextConcurrent]_vars

(***************************************************************************)
(* Streams with usage/timings records: with a choices entry, and, as the   *)
(* usage record that closes an OpenAI-style stream, without one.           *)
(***************************************************************************)
SecondUsageChunk == <<DataLine(Payload(TRUE, <<>>, None, None, "", "u2"))>>
UsageOnlyChunk == <<DataLine(Payload(FALSE, <<>>, None, None, "", "u3"))>>

TrailerChunks == {ContentChunk, FragmentChunk, UsageChunk, SecondUsageChunk, UsageOnlyChunk}

StreamTrailer(r) ==
    /\ streamed[r] < MaxChunks
    /\ \E chunk \in TrailerChunks : ReadChunk(r, chunk)

ServeTrailer(r) ==
    \/ Arrive(r)
    \/ ListAnsweredOk(r)
    \/ ToolsReady(r)
    \/ LoopHead(r)
    \/ RespondOk(r)
    \/ StreamTrailer(r)
    \/ ReadDone(r)
    \/ AnsweredOk(r)
    \/ ToolsDone(r)

NextTrailer == ServeTrailer("r1")

SpecTrailer == AccumulatorInit /\ [][NextTrailer]_vars

(***************************************************************************)
(* The life of one request from its arrival to the close of the response:  *)
(* the request body holds a messages array or none; the provider, its      *)
(* stream and the RPC service answer or fail, and each of them does answer *)
(* or fail in the end.                                                     *)
(***************************************************************************)
ArriveAny(r) == \E messages \in Bodies \cup {AbsentMessages} : Receive(r, messages)

ServeLifecycle(r) ==
    \/ ArriveAny(r)
    \/ ListAnswered(r)
    \/ ToolsReady(r)
    \/ LoopHead(r)
    \/ Respond(r)
    \/ Stream(r)
    \/ ReadFails(r)
    \/ ReadDone(r)
    \/ Answered(r)
    \/ ToolsDone(r)

NextLifecycle == ServeLifecycle("r1")

SpecLifecycle == CeilingInit /\ [][NextLifecycle]_vars /\ WF_vars(NextLifecycle)

(***************************************************************************)
(* Properties of the orchestration loop                                    *)
(***************************************************************************)

CeilingError == ErrorEvent("Maximum iterations reached")
CountOf(seq, e) == Cardinality({i \in 1..Len(seq) : seq[i] = e})

(* The state part of the ceiling: never more than MAX_ITERATIONS provider  *)
(* requests; once the error event is written or the request is over,       *)
(* exactly MAX_ITERATIONS requests were sent and the one                   *)
(* 'Maximum iterations reached' event is the last event of an ended        *)
(* response.                                                               *)
C1_CeilingInv ==
    /\ Len(provLog["r1"]) <= MAX_ITERATIONS
    /\ iterationCount["r1"] = Len(provLog["r1"])
    /\ (CountOf(out["r1"], CeilingError) > 0 \/ pc["r1"] = "done") =>
          /\ pc["r1"] = "done"
          /\ ended["r1"]
          /\ Len(provLog["r1"]) = MAX_ITERATIONS
          /\ CountOf(out["r1"], CeilingError) = 1
          /\ out["r1"][Len(out["r1"])] = CeilingError

(* C1: the ceiling holds in every state (at most MAX_ITERATIONS provider   *)
(* requests; the ceiling error only after exactly MAX_ITERATIONS of them,  *)
(* once, last, with the response ended), and the request does end.         *)
C1_Ceiling == []C1_CeilingInv /\ <>(pc["r1"] = "done")

(* Ten provider requests were sent and the eleventh round wrote the error. *)
C1_Witness ==
    /\ pc["r1"] = "done"
    /\ Len(provLog["r1"]) = MAX_ITERATIONS
    /\ out["r1"] # <<>> /\ out["r1"][Len(out["r1"])] = CeilingError

(* The turn was decided for tools: the assistant message is pushed and    *)
(* the calls are running.                                                  *)
DecidedTools(r) == pc[r] = "executing"

(* The turn was decided as the terminal turn: the handler wrote [DONE]     *)
(* last and ended the response.                                            *)
DecidedFinal(r) ==
    /\ pc[r] = "done"
    /\ out[r] # <<>>
    /\ out[r][Len(out[r])] = DoneEvent

(* The tool results of the last tool turn are in the conversation and the  *)
(* state of that turn is still held.                                       *)
ResultsAppended(r) == pc[r] \in {"loop", "requesting"} /\ Len(turn[r].toolCalls) > 0

(* C2: for every order in which the calls of a turn complete, the message  *)
(* pushed at position i after the assistant message is the tool message of *)
(* call i: it carries the tool_call_id of call i and what executeToolCall  *)
(* returned for call i.                                                    *)
C2_ResultsInCallOrder ==
    \A r \in Requests : ResultsAppended(r) =>
        LET calls == turn[r].toolCalls
            base == Len(conv[r]) - Len(calls)
        IN /\ base >= 1
           /\ conv[r][base].role = "assistant"
           /\ conv[r][base].tool_calls = calls
           /\ \A i \in 1..Len(calls) : calls[i] # Hole =>
                 /\ conv[r][base + i].role = "tool"
                 /\ conv[r][base + i].tool_call_id = calls[i].id
                 /\ exec[r][i].ret[1].ok
                 /\ conv[r][base + i].content = exec[r][i].ret[1].value

(* Two calls were sent, the second completed first, and the results are    *)
(* in the conversation.                                                    *)
C2_Witness ==
    /\ ResultsAppended("r1")
    /\ Len(turn["r1"].toolCalls) = 2
    /\ execOrder["r1"] = <<2, 1>>
    /\ exec["r1"][1].ret # exec["r1"][2].ret

(* C3 as amended: tools are executed exactly when, at the end of the       *)
(* stream, the tool-call list built from the payloads the handler read is  *)
(* not empty.  A fragment, without a direct list, always leads to          *)
(* execution, and so does a non-empty direct list; the finish reason       *)
(* 'tool_calls' without a fragment or a list never does: the turn is       *)
(* finalized.                                                              *)
C3_Classification ==
    \A r \in Requests : (DecidedTools(r) \/ DecidedFinal(r)) =>
        /\ DecidedTools(r) <=> Len(turn[r].toolCalls) > 0
        /\ DecidedTools(r) => (signals[r] \cap {"fragment", "list"}) # {}
        /\ ("fragment" \in signals[r] /\ "list" \notin signals[r]) => DecidedTools(r)
        /\ signals[r] \subseteq {"finish"} => DecidedFinal(r)

(* A turn whose only signal was the finish reason was finalized. *)
C3_Witness == DecidedFinal("r1") /\ signals["r1"] = {"finish"}

(* C3 as claimed: tools are executed if and only if one of the three       *)
(* signals occurred in the turn.                                           *)
C3_AsClaimed ==
    \A r \in Requests : (DecidedTools(r) \/ DecidedFinal(r)) =>
        (DecidedTools(r) <=> signals[r] # {})

(* C8: the end sentinel is written once per request, as the last event,    *)
(* and never while the request goes on; a request that ends successfully   *)
(* ends with the captured metadata, if any, and the sentinel.              *)
C8_SentinelOnceLast ==
    \A r \in Requests :
        /\ CountOf(out[r], DoneEvent) <= 1
        /\ CountOf(out[r], DoneEvent) = 1 =>
              (pc[r] = "done" /\ out[r][Len(out[r])] = DoneEvent)
        /\ (DecidedFinal(r) /\ turn[r].finalData # None) =>
              (Len(out[r]) >= 2 /\ out[r][Len(out[r]) - 1] = FinalEvent(turn[r].finalData[1]))

(* C9 as amended: the terminal turn appends nothing to the conversation,   *)
(* which stays as it was sent in the last provider request; in the         *)
(* end-to-end scenario (one user message, one tool turn with one call, a   *)
(* terminal turn) it has length 3: user, assistant with the call, tool     *)
(* result.                                                                 *)
C9_FinalConversation ==
    \A r \in Requests : DecidedFinal(r) =>
        /\ conv[r] = provLog[r][Len(provLog[r])].messages
        /\ (Len(provLog[r]) = 2 /\ Len(provLog[r][2].messages[2].tool_calls) = 1) =>
              /\ Len(conv[r]) = 3
              /\ conv[r][1].role = "user"
              /\ conv[r][2].role = "assistant"
              /\ conv[r][3].role = "tool"

(* The end-to-end scenario: the fragment and the finish reason, the tool   *)
(* result, then content and the end of the stream.                         *)
C9_Witness ==
    /\ DecidedFinal("r1")
    /\ Len(provLog["r1"]) = 2
    /\ Len(conv["r1"]) = 3
    /\ conv["r1"][2] = AssistantMsg(None, <<ToolCall(GivenId("a"), "retrieve_balance", NoArgs)>>)
    /\ conv["r1"][3] = ToolMsg(TextOf("available 1000"), GivenId("a"))
    /\ turn["r1"].accumulatedContent = Text("x")
    /\ out["r1"] = <<ChunkEvent(ContentChunk), DoneEvent>>

(* C9 as claimed: the content of the terminal turn is the last message of  *)
(* the conversation.                                                       *)
C9_AsClaimed ==
    \A r \in Requests : DecidedFinal(r) =>
        /\ Len(conv[r]) = Len(provLog[r][Len(provLog[r])].messages) + 1
        /\ conv[r][Len(conv[r])].role = "assistant"

(* C10: once the caller has disconnected, the request sends no provider    *)
(* request, reads no chunk of the provider stream and sends no tool call   *)
(* to the RPC service.                                                     *)
C10_AbandonedOnDisconnect ==
    [][\A r \in Requests : disconnected[r] =>
          /\ provLog'[r] = provLog[r]
          /\ streamed'[r] = streamed[r]
          /\ (exec'[r] # exec[r] /\ pc[r] = "streaming") => \A i \in 1..Len(exec'[r]) : ~exec'[r][i].sent]_vars

(* The fragments of a log that address index i (an absent index is 0). *)
FragmentIndex(f) == IF f.index = None THEN 0 ELSE f.index[1]
FragmentsAt(log, i) == SelectSeq(log, LAMBDA f : FragmentIndex(f) = i)

RECURSIVE ConcatArguments(_)
ConcatArguments(fs) ==
    IF fs = <<>> THEN <<>> ELSE Head(fs).arguments \o ConcatArguments(Tail(fs))

(* The last non-empty id, and name, of a sequence of fragments; "" when    *)
(* none carries one.                                                       *)
RECURSIVE LastId(_)
LastId(fs) ==
    IF fs = <<>> THEN ""
    ELSE IF fs[Len(fs)].id # "" THEN fs[Len(fs)].id
    ELSE LastId(SubSeq(fs, 1, Len(fs) - 1))

RECURSIVE LastName(_)
LastName(fs) ==
    IF fs = <<>> THEN ""
    ELSE IF fs[Len(fs)].name # "" THEN fs[Len(fs)].name
    ELSE LastName(SubSeq(fs, 1, Len(fs) - 1))

(* C4: for every sequence of fragments of a turn and every index, the      *)
(* builder at that index has as arguments the concatenation, in arrival    *)
(* order, of the deltas of the fragments with that index, and as id and    *)
(* name the last non-empty id and name such a fragment supplied; an index  *)
(* no fragment addressed has no builder.                                   *)
C4_Accumulator ==
    \A r \in Requests : pc[r] \in {"streaming", "executing"} =>
        \A i \in 0..Len(turn[r].toolCalls) \cup {FragmentIndex(fragLog[r][j]) : j \in 1..Len(fragLog[r])} :
            LET fs == FragmentsAt(fragLog[r], i)
                calls == turn[r].toolCalls
            IN IF fs = <<>> THEN NoBuilderAt(calls, i)
               ELSE /\ ~NoBuilderAt(calls, i)
                    /\ calls[i + 1].arguments = ConcatArguments(fs)
                    /\ calls[i + 1].name = LastName(fs)
                    /\ LastId(fs) # "" => calls[i + 1].id = GivenId(LastId(fs))
                    /\ LastId(fs) = "" => calls[i + 1].id = GeneratedId(clock, i)

(* Three fragments at index 2: the deltas "{", "" and "}" make "{}", and   *)
(* the id and name of the first survive the later fragments without.       *)
C4_Witness ==
    /\ pc["r1"] = "executing"
    /\ fragLog["r1"] = <<Fragment(Some(2), "a", "retrieve_balance", <<"{">>),
                         Fragment(Some(2), "", "", <<>>),
                         Fragment(Some(2), "", "", <<"}">>)>>
    /\ turn["r1"].toolCalls[3] = ToolCall(GivenId("a"), "retrieve_balance", <<"{", "}">>)

(* C5: executeToolCall never throws.  Arguments that do not parse give the *)
(* error text without a request to the RPC service; a missing Stripe       *)
(* credential and every failure of the transport give the error text too.  *)
C5_ExecutorNeverThrows ==
    \A r \in Requests : pc[r] \in {"executing", "loop", "requesting"} =>
        \A i \in 1..Len(exec[r]) : exec[r][i].st = "done" =>
            LET e == exec[r][i]
                arguments == turn[r].toolCalls[i].arguments
                parses == arguments = <<>> \/ arguments = <<"{", "}">>
            IN /\ e.ret[1].ok
               /\ ~parses => (~e.sent /\ e.ret[1].value = ErrorText("Invalid tool arguments JSON"))
               /\ (parses /\ ~stripeKey) =>
                     (~e.sent /\ e.ret[1].value = ErrorText("STRIPE_SECRET_KEY is not configured"))
               /\ e.answer = Some(NetError) => e.ret[1].value = ErrorText("fetch failed")
               /\ e.answer = Some(HttpError) => e.ret[1].value = ErrorText("MCP server error")
               /\ e.answer = Some(RpcError) => e.ret[1].value = ErrorText("MCP error")
               /\ e.sent <=> (parses /\ stripeKey)

(* In one turn a call with unparsable arguments settled without a request  *)
(* and a call that was sent met a JSON-RPC error; both returned the error  *)
(* text.                                                                   *)
C5_Witness ==
    /\ pc["r1"] = "loop"
    /\ Len(exec["r1"]) = 2
    /\ exec["r1"][1] = ExecSettled(FALSE, None, Ok(ErrorText("Invalid tool arguments JSON")))
    /\ exec["r1"][2] = ExecSettled(TRUE, Some(RpcError), Ok(ErrorText("MCP error")))

(***************************************************************************)
(* Properties of the tool catalog                                          *)
(***************************************************************************)

(* C6: a getStripeTools call whose fetch fails leaves cachedTools and      *)
(* cacheTimestamp unchanged; with a cache it returns that cache, without   *)
(* one the failure propagates and the cache stays absent (forced or not).  *)
C6_StaleOnError ==
    [][\A c \in DirectCallers :
        (gpc[c] = "fetching" /\ gpc'[c] # "fetching" /\ glisted'[c] = None) =>
            /\ cachedTools' = cachedTools
            /\ cacheTimestamp' = cacheTimestamp
            /\ IF cachedTools # None
               THEN gpc'[c] = "returned" /\ gret'[c] = cachedTools
               ELSE gpc'[c] = "threw" /\ gret'[c] = None]_vars

(* A forced refresh failed with a cache in place and returned that cache. *)
C6_Witness ==
    \E c \in DirectCallers :
        /\ gpc[c] = "returned" /\ gfetched[c] /\ glisted[c] = None /\ gforce[c]
        /\ gret[c] # None /\ gret[c] = cachedTools

(* The age of the cache a call found, at the `now` the call read. *)
SeenAge(c) == gnow[c] - gseen[c].stamp

(* The condition under which a call is served from the cache: not forced,  *)
(* a cache exists (an empty list counts), and its age is below CACHE_TTL.  *)
C7_ServedFromCache(c) ==
    ~gforce[c] /\ gseen[c].tools # None /\ SeenAge(c) < CACHE_TTL

C7_CallInv ==
    \A c \in DirectCallers : gpc[c] # "idle" =>
        /\ gfetched[c] <=> ~C7_ServedFromCache(c)
        /\ ~gfetched[c] => (gpc[c] = "returned" /\ gret[c] = gseen[c].tools)
        /\ (gpc[c] = "returned" /\ glisted[c] # None) =>
               gret[c] = Some(MapConvert(glisted[c][1]))

(* C7 as amended: getStripeTools returns the cache without fetching        *)
(* exactly when forceRefresh is not set, a cache exists (cachedTools is    *)
(* not null; an empty list counts) and its age is below CACHE_TTL; in      *)
(* every other case it fetches, and a successful fetch replaces the whole  *)
(* cache by the converted fetched list, stamped with the call's `now`.     *)
C7_CachedExactlyWhenValid ==
    /\ []C7_CallInv
    /\ [][\A c \in DirectCallers :
            (gpc[c] = "fetching" /\ glisted'[c] # None) =>
                /\ cachedTools' = Some(MapConvert(glisted'[c][1]))
                /\ cacheTimestamp' = gnow[c]]_vars

(* An empty cached list, younger than the time-to-live, served without a  *)
(* fetch.                                                                  *)
C7_Witness ==
    \E c \in DirectCallers :
        /\ gpc[c] = "returned" /\ ~gfetched[c] /\ gret[c] = Some(<<>>)

(* C7 as claimed: the cache is served exactly when forceRefresh is not    *)
(* set and the cache is non-empty and younger than the time-to-live.       *)
C7_AsClaimed ==
    \A c \in DirectCallers : gpc[c] # "idle" =>
        (~gfetched[c] <=>
            (/\ ~gforce[c]
             /\ gseen[c].tools # None
             /\ gseen[c].tools # Some(<<>>)
             /\ SeenAge(c) < CACHE_TTL))


(***************************************************************************)
(* Relaying and chunk handling                                             *)
(***************************************************************************)

(* The content deltas a reader of a relayed chunk finds in it: the caller  *)
(* splits the chunk into lines and takes delta.content of every 'data: '   *)
(* record.                                                                 *)
RECURSIVE ClientContent(_)
ClientContent(chunk) ==
    IF chunk = <<>> THEN <<>>
    ELSE (IF Head(chunk).line = "data" /\ Head(chunk).rec.choice
          THEN Head(chunk).rec.content ELSE <<>>) \o ClientContent(Tail(chunk))

(* The event appended to out[r] by a step, when it is a relayed chunk. *)
RelaysChunk(r) ==
    /\ Len(out'[r]) > Len(out[r])
    /\ out'[r][Len(out[r]) + 1].k = "chunk"
RelayedChunk(r) == out'[r][Len(out[r]) + 1].chunk

(* C11: within a turn a content delta is relayed in the step that reads    *)
(* it, in the order read; what is relayed carries exactly the content      *)
(* that is accumulated into the turn's buffer; and the assistant message   *)
(* of a tool turn has that buffer as its content (null when empty).        *)
C11_RelayEqualsBuffer ==
    [][\A r \in Requests :
          /\ (pc[r] = "streaming" /\ pc'[r] = "streaming"
                 /\ turn'[r].accumulatedContent # turn[r].accumulatedContent)
                => RelaysChunk(r)
          /\ RelaysChunk(r) =>
                turn'[r].accumulatedContent =
                    turn[r].accumulatedContent \o ClientContent(RelayedChunk(r))
          /\ (pc[r] = "streaming" /\ pc'[r] = "executing") =>
                conv'[r][Len(conv'[r])].content =
                    (IF turn[r].accumulatedContent # <<>>
                     THEN Some(turn[r].accumulatedContent) ELSE None)]_vars

(* Every record of a chunk processed in order, as a chunk parser that      *)
(* yields all the records of a chunk would have the handler do.            *)
RECURSIVE ProcessAll(_, _, _)
ProcessAll(t, chunk, now) ==
    IF chunk = <<>> THEN t
    ELSE ProcessAll(IF Head(chunk).line = "data"
                    THEN ProcessParsed(t, Head(chunk).rec, now) ELSE t,
                    Tail(chunk), now)

(* C17: a chunk with several 'data: ' records has every record processed   *)
(* in order: after a relayed chunk was read the state of the turn is the   *)
(* one reached by processing all the records of the chunk.                 *)
C17_EveryRecordProcessed ==
    [][\A r \in Requests :
          (RelaysChunk(r) /\ pc'[r] = "streaming") =>
              turn'[r] = ProcessAll(turn[r], RelayedChunk(r), clock)]_vars

(* C19: data of the stream that is not of the expected form never ends     *)
(* the request with an error: with a provider that always answers and a    *)
(* stream that never breaks, no error event is written.                    *)
C19_MalformedNeverFatal ==
    \A r \in Requests : \A i \in 1..Len(out[r]) : out[r][i].k # "error"


(***************************************************************************)
(* Failures of the provider and of the configuration                       *)
(***************************************************************************)

(* The error events of a non-success status, one per raw error body. *)
StatusErrorEvents ==
    {ProviderErrorWrites(response)[1] : response \in {x \in ProviderResponses : x.k = "notok"}}

(* The request ended on a non-success status of the provider. *)
ProviderErrored(r) ==
    /\ out[r] # <<>>
    /\ out[r][Len(out[r])] \in StatusErrorEvents

C12_StatusErrorInv ==
    \A r \in Requests :
        \A e \in StatusErrorEvents : CountOf(out[r], e) > 0 =>
            /\ pc[r] = "done"
            /\ ended[r]
            /\ out[r][Len(out[r])] = e
            /\ Cardinality({i \in 1..Len(out[r]) : out[r][i].k = "error"}) = 1

C12_StatusErrorStep ==
    \A r \in Requests :
        /\ (pc[r] = "requesting" /\ pc'[r] = "done") =>
              /\ Len(out'[r]) = Len(out[r]) + 1
              /\ out'[r][Len(out'[r])].k = "error"
              /\ UNCHANGED <<provLog, exec, conv>>
        /\ ProviderErrored(r) =>
              /\ pc'[r] = "done"
              /\ UNCHANGED <<provLog, exec, conv, out, ended>>

(* C12: a non-success status of the provider, in whatever iteration,       *)
(* writes exactly one error event, which carries the raw error body, as    *)
(* the last event of the response and ends the response; afterwards        *)
(* nothing more happens for the request: no provider request, no tool      *)
(* execution, no end sentinel.                                             *)
C12_StatusErrorEndsRequest == []C12_StatusErrorInv /\ [][C12_StatusErrorStep]_vars

(* The provider answered the second request of a request, after a tool     *)
(* turn, with a non-success status and the body 'rate limited'.            *)
C12_Witness ==
    /\ pc["r1"] = "done"
    /\ Len(provLog["r1"]) = 2
    /\ Len(conv["r1"]) > 1
    /\ out["r1"][Len(out["r1"])] = ErrorEvent("dat1 API error: rate limited")


(* C13: with a credential missing (DAT1_API_KEY or STRIPE_SECRET_KEY) the  *)
(* request sends no provider request, reads no stream and starts no tool   *)
(* call.                                                                   *)
C13_MissingCredentialFailsFast ==
    \A r \in Requests : (~dat1Key \/ ~stripeKey) =>
        /\ provLog[r] = <<>>
        /\ streamed[r] = 0
        /\ exec[r] = <<>>


C14_RequestBodyInv ==
    \A r \in Requests : \A i \in 1..Len(provLog[r]) :
        /\ tools[r] = <<>> => provLog[r][i].tools = None
        /\ tools[r] # <<>> => provLog[r][i].tools = Some(tools[r])

C14_FetchFailureStep ==
    \A r \in Requests :
        /\ (pc[r] = "tools" /\ gpc[r] = "threw" /\ pc'[r] # "tools") =>
              /\ pc'[r] = "loop"
              /\ tools'[r] = <<>>
              /\ out'[r] = out[r]
              /\ ~ended'[r]
        /\ (pc[r] = "loop" /\ tools[r] = <<>> /\ pc'[r] # "loop") =>
              /\ pc'[r] = "requesting"
              /\ Len(provLog'[r]) = Len(provLog[r]) + 1
              /\ provLog'[r][Len(provLog'[r])].tools = None

(* C14: when getStripeTools throws (the fetch failed and there is no       *)
(* cache) the request goes on: nothing is written, the response is not     *)
(* ended, the loop starts with an empty tool list, and every provider      *)
(* request made with an empty tool list carries no tools field.            *)
C14_ProceedsWithoutTools == []C14_RequestBodyInv /\ [][C14_FetchFailureStep]_vars

(* The Stripe credential is set, the tool-listing service failed, and the  *)
(* provider was asked without a tools field and is streaming.              *)
C14_Witness ==
    /\ stripeKey
    /\ pc["r1"] = "streaming"
    /\ tools["r1"] = <<>>
    /\ Len(provLog["r1"]) = 1
    /\ provLog["r1"][1].tools = None


(***************************************************************************)
(* Result normalization of the tool executor                               *)
(***************************************************************************)

(* The text the normalization is to return for a result of the transport:  *)
(* the text of the first block of type 'text' when the result has a list   *)
(* of blocks with one, whatever that text is; otherwise the serialized     *)
(* result.                                                                 *)
FirstTextOrSerialized(result) ==
    IF result # NoResult /\ result.content # None /\ FindText(result.content[1]) # None
    THEN TextOf(FindText(result.content[1])[1].text)
    ELSE JsonOf(result)

(* C16: for every result the RPC service returns, executeToolCall returns  *)
(* the text of the first text block (the empty text included) or else the  *)
(* serialized result, and what it returns is always a text, never          *)
(* undefined.                                                              *)
C16_NormalizedText ==
    \A r \in Requests : \A i \in 1..Len(exec[r]) :
        (exec[r][i].st = "done" /\ exec[r][i].sent /\ exec[r][i].answer[1].k = "result") =>
            /\ exec[r][i].ret[1].ok
            /\ exec[r][i].ret[1].value # UndefinedValue
            /\ exec[r][i].answer[1].result # NoResult =>
                  exec[r][i].ret[1].value = FirstTextOrSerialized(exec[r][i].answer[1].result)


(***************************************************************************)
(* The shape of the conversation                                           *)
(***************************************************************************)

(* Whether an element of the conversation is a message of the role. *)
IsRole(m, role) == m # UndefinedMsg /\ m.role = role

AssistantPositions(c) == {k \in 1..Len(c) : IsRole(c[k], "assistant")}
ToolPositions(c) == {k \in 1..Len(c) : IsRole(c[k], "tool")}

(* The content of the assistant message of a turn. *)
ContentOrNull(t) == IF t.accumulatedContent # <<>> THEN Some(t.accumulatedContent) ELSE None

C15_TurnInv ==
    \A r \in Requests :
        LET c == conv[r]
        IN /\ \A k \in AssistantPositions(c) :
                 LET calls == c[k].tool_calls
                     n == Len(calls)
                 IN /\ n > 0
                    /\ IF k = Len(c)
                       THEN /\ pc[r] = "executing"
                            /\ c[k] = AssistantMsg(ContentOrNull(turn[r]), turn[r].toolCalls)
                       ELSE /\ k + n <= Len(c)
                            /\ \A i \in 1..n :
                                  IF calls[i] = Hole THEN ~IsRole(c[k + i], "tool")
                                  ELSE /\ IsRole(c[k + i], "tool")
                                       /\ c[k + i].tool_call_id = calls[i].id
                            /\ k + n < Len(c) => IsRole(c[k + n + 1], "assistant")
           /\ \A j \in ToolPositions(c) :
                 \E k \in AssistantPositions(c) :
                     k < j /\ j - k <= Len(c[k].tool_calls) /\ c[k].tool_calls[j - k] # Hole
           /\ pc[r] \in {"requesting", "streaming"} =>
                 Cardinality(AssistantPositions(c)) = iterationCount[r] - 1
           /\ pc[r] \in {"executing", "loop"} =>
                 Cardinality(AssistantPositions(c)) = iterationCount[r]
           /\ (pc[r] = "executing" /\ "list" \notin signals[r]) =>
                 \A i \in 1..Len(turn[r].toolCalls) : turn[r].toolCalls[i] # Hole =>
                     \E j \in 1..Len(fragLog[r]) : FragmentIndex(fragLog[r][j]) = i - 1

C15_TurnStep ==
    \A r \in Requests :
        /\ (pc[r] = "streaming" /\ pc'[r] = "done") => conv'[r] = conv[r]
        /\ (pc[r] = "requesting" /\ pc'[r] = "streaming") =>
              /\ turn'[r].toolCalls = <<>>
              /\ turn'[r].accumulatedContent = <<>>
              /\ ~turn'[r].hasToolCalls

C18_NoPlaceholder ==
    \A r \in Requests :
        /\ \A k \in 1..Len(conv[r]) : conv[r][k] # UndefinedMsg
        /\ \A k \in AssistantPositions(conv[r]) :
              \A i \in 1..Len(conv[r][k].tool_calls) : conv[r][k].tool_calls[i] # Hole
        /\ \A i \in 1..Len(exec[r]) : exec[r][i].st # "hole"

(* C20: every tool message of the conversation has a tool_call_id that is  *)
(* defined and is the id of a tool call of an assistant message that       *)
(* stands before it.                                                       *)
C20_ToolMessageReferences ==
    \A r \in Requests : \A j \in ToolPositions(conv[r]) :
        /\ conv[r][j].tool_call_id # AbsentId
        /\ \E k \in AssistantPositions(conv[r]) :
              /\ k < j
              /\ \E i \in 1..Len(conv[r][k].tool_calls) :
                    /\ conv[r][k].tool_calls[i] # Hole
                    /\ conv[r][k].tool_calls[i].id = conv[r][j].tool_call_id


(***************************************************************************)
(* Generated ids, timing of the tool turn, concurrent requests             *)
(***************************************************************************)

(* Whether an id was generated by the handler. *)
IsGenerated(id) == "call" \in DOMAIN id

(* C21: the ids the handler generates are unique in the process: two       *)
(* different tool calls with generated ids, in one conversation or in the  *)
(* conversations of two requests, never have the same id, wherever the     *)
(* clock stands.                                                           *)
C21_GeneratedIdsUnique ==
    \A r \in Requests, q \in Requests :
        \A k \in AssistantPositions(conv[r]), l \in AssistantPositions(conv[q]) :
            \A i \in 1..Len(conv[r][k].tool_calls), j \in 1..Len(conv[q][l].tool_calls) :
                LET a == conv[r][k].tool_calls[i]
                    b == conv[q][l].tool_calls[j]
                IN (<<r, k, i>> # <<q, l, j>> /\ a # Hole /\ b # Hole
                        /\ IsGenerated(a.id) /\ IsGenerated(b.id))
                   => a.id # b.id


C22_NoCallWhileStreaming ==
    \A r \in Requests :
        /\ pc[r] \in {"requesting", "streaming"} =>
              \A i \in 1..Len(exec[r]) : exec[r][i].st # "pending"
        /\ pc[r] = "executing" =>
              /\ Len(exec[r]) = Len(turn[r].toolCalls)
              /\ conv[r][Len(conv[r])].tool_calls = turn[r].toolCalls

C22_DispatchStep ==
    \A r \in Requests :
        /\ (\E i \in 1..Len(exec'[r]) :
                /\ exec'[r][i].st = "pending"
                /\ (i > Len(exec[r]) \/ exec[r][i].st # "pending")) =>
              /\ pc[r] = "streaming"
              /\ pc'[r] = "executing"
              /\ turn'[r] = turn[r]
        /\ pc[r] = "executing" => turn'[r] = turn[r]
        /\ \A i \in 1..Len(exec[r]) :
              (exec[r][i].st = "pending" /\ Len(exec'[r]) = Len(exec[r])
                  /\ exec'[r][i].st = "done") =>
                  exec'[r][i].ret[1] =
                      ExecuteToolCall(stripeKey,
                                      conv[r][Len(conv[r])].tool_calls[i].arguments,
                                      exec'[r][i].answer[1])

(* C22: no tool call is sent to the RPC service while the provider stream  *)
(* of the turn is read: the calls are started in the step that ends the    *)
(* stream, from the list as it stands then; while they run the list does   *)
(* not change, and each call is made with the arguments of the frozen      *)
(* list, the one of the assistant message.                                 *)
C22_DispatchAfterStreamEnd == []C22_NoCallWhileStreaming /\ [][C22_DispatchStep]_vars

(* A call is waiting for the RPC service and its builder was made of more  *)
(* than one fragment.                                                      *)
C22_Witness ==
    /\ pc["r1"] = "executing"
    /\ Len(fragLog["r1"]) >= 2
    /\ \E i \in 1..Len(exec["r1"]) : exec["r1"][i].st = "pending"


C23_RequestsExtend ==
    \A r \in Requests :
        /\ \A k \in 1..(Len(provLog[r]) - 1) :
              LET prev == provLog[r][k].messages
                  next == provLog[r][k + 1].messages
              IN /\ Len(next) > Len(prev)
                 /\ SubSeq(next, 1, Len(prev)) = prev
                 /\ IsRole(next[Len(prev) + 1], "assistant")
                 /\ LET calls == next[Len(prev) + 1].tool_calls
                    IN /\ Len(next) = Len(prev) + 1 + Len(calls)
                       /\ \A i \in 1..Len(calls) : calls[i] # Hole =>
                             /\ IsRole(next[Len(prev) + 1 + i], "tool")
                             /\ next[Len(prev) + 1 + i].tool_call_id = calls[i].id
        /\ pc[r] = "requesting" =>
              /\ provLog[r][Len(provLog[r])].messages = conv[r]
              /\ \A i \in 1..Len(exec[r]) : exec[r][i].st # "pending"

C23_RequestStep ==
    \A r \in Requests :
        Len(provLog'[r]) > Len(provLog[r]) =>
            /\ \A i \in 1..Len(exec[r]) : exec[r][i].st # "pending"
            /\ provLog'[r][Len(provLog'[r])].messages = conv[r]

(* C23: a provider request is sent only when every call of the turn        *)
(* before has settled; its messages are the messages of the request        *)
(* before, then the assistant message of that turn, then one tool message  *)
(* per call of that message in the position of the call, whatever the      *)
(* order in which the calls completed.                                     *)
C23_NextRequestAfterResults == []C23_RequestsExtend /\ [][C23_RequestStep]_vars

(* The second provider request was sent after a turn of two calls of       *)
(* which the second completed first.                                       *)
C23_Witness ==
    /\ pc["r1"] = "requesting"
    /\ Len(provLog["r1"]) = 2
    /\ execOrder["r1"] = <<2, 1>>


(* The state a request owns: its position, the caller's list, the          *)
(* conversation, the counter, the state of the turn, the calls, and what   *)
(* was written to its response.                                            *)
OwnState(r) == <<pc[r], body[r], conv[r], iterationCount[r], turn[r], exec[r], out[r]>>
OwnStateNext(r) ==
    <<pc'[r], body'[r], conv'[r], iterationCount'[r], turn'[r], exec'[r], out'[r]>>

C24_OwnMessagesOnly ==
    \A r \in Requests :
        /\ pc[r] # "idle" => body[r] = OwnBody(r)
        /\ pc[r] \notin {"idle", "tools"} =>
              /\ Len(conv[r]) >= 1
              /\ conv[r][1] = UserMsg(OwnText(r))
        /\ \A j \in 1..Len(turn[r].accumulatedContent) :
              turn[r].accumulatedContent[j] = OwnDelta(r)
        /\ \A k \in 2..Len(conv[r]) :
              /\ IsRole(conv[r][k], "assistant") \/ IsRole(conv[r][k], "tool")
              /\ IsRole(conv[r][k], "tool") => conv[r][k].tool_call_id = GivenId(OwnId(r))
              /\ IsRole(conv[r][k], "assistant") =>
                    /\ \A i \in 1..Len(conv[r][k].tool_calls) :
                          conv[r][k].tool_calls[i].id = GivenId(OwnId(r))
                    /\ conv[r][k].content # None =>
                          \A j \in 1..Len(conv[r][k].content[1]) :
                              conv[r][k].content[1][j] = OwnDelta(r)

C24_OwnStep ==
    \A r \in Requests :
        /\ pc[r] # "idle" => body'[r] = body[r]
        /\ OwnStateNext(r) # OwnState(r) =>
              \A q \in Requests \ {r} : OwnStateNext(q) = OwnState(q)

(* C24: of two requests served in any interleaving, each has a             *)
(* conversation made of its own messages and of the assistant and tool     *)
(* messages of its own turns; the caller's list is never changed; and a    *)
(* step of one request changes nothing of what the other owns.             *)
C24_NoSharedConversation == []C24_OwnMessagesOnly /\ [][C24_OwnStep]_vars

(* Both requests are in the middle of a turn, one waiting for its tool     *)
(* call, the other reading content, each after a tool turn of its own.     *)
C24_Witness ==
    /\ pc["r1"] = "executing"
    /\ pc["r2"] = "streaming"
    /\ turn["r2"].accumulatedContent # <<>>
    /\ Len(conv["r1"]) >= 4
    /\ Len(conv["r2"]) >= 3


(***************************************************************************)
(* The tool cache under overlapping calls                                  *)
(***************************************************************************)

(* The converted lists of the fetches the service can answer. *)
CompleteLists == {MapConvert(l) : l \in ListedTools}

C25_CacheInv ==
    /\ cachedTools = None => cacheTimestamp = 0
    /\ cachedTools # None => cachedTools[1] \in CompleteLists
    /\ \A c \in Callers : gpc[c] = "returned" =>
          /\ gret[c] # None
          /\ gret[c][1] \in CompleteLists

C25_CacheStep ==
    /\ (cachedTools' # cachedTools \/ cacheTimestamp' # cacheTimestamp) =>
          \E c \in Callers :
              /\ gpc[c] = "fetching"
              /\ gpc'[c] = "returned"
              /\ glisted'[c] # None
              /\ cachedTools' = Some(MapConvert(glisted'[c][1]))
              /\ cacheTimestamp' = gnow[c]
              /\ gret'[c] = cachedTools'
    /\ \A c \in Callers :
          (gpc[c] # "returned" /\ gpc'[c] = "returned") =>
              /\ gret'[c] = cachedTools'
              /\ glisted'[c] = None => gret'[c] = cachedTools

(* C25: under every interleaving of getStripeTools calls, each list that   *)
(* is returned is the whole converted list of one successful fetch (the    *)
(* caller's own fetch, or the one held by the cache), and the cache and    *)
(* its timestamp are always written together, by one call, from that       *)
(* call's fetch and that call's clock reading.                             *)
C25_ConsistentSnapshot == []C25_CacheInv /\ [][C25_CacheStep]_vars

(* A refresh completed and filled the cache while another call, begun at   *)
(* another time, is still fetching.                                        *)
C25_Witness ==
    /\ gpc["c1"] = "fetching"
    /\ gpc["c2"] = "returned"
    /\ gfetched["c2"]
    /\ glisted["c2"] # None
    /\ gnow["c1"] # gnow["c2"]
    /\ cachedTools # None /\ Len(cachedTools[1]) = 2

(* C29: when refreshes overlap, a refresh that began earlier never         *)
(* replaces the result of one that began later: the timestamp of the       *)
(* cache never decreases.                                                  *)
C29_TimestampNeverDecreases == [][cacheTimestamp' >= cacheTimestamp]_vars


(***************************************************************************)
(* Trailer, catalog fetches, end of the request                            *)
(***************************************************************************)

(* C26: when the stream of the terminal turn carried records with usage    *)
(* or timings, with or without a choices entry, the last of them is        *)
(* written as the event before the end sentinel; when it carried none, no  *)
(* metadata event is written.                                              *)
C26_TrailerIsLastMetadata ==
    \A r \in Requests : DecidedFinal(r) =>
        IF lastMeta[r] # None
        THEN /\ Len(out[r]) >= 2
             /\ out[r][Len(out[r]) - 1] = FinalEvent(lastMeta[r][1])
        ELSE \A i \in 1..Len(out[r]) : out[r][i].k # "final"


(* C27 as stated: every provider request of a request is preceded by its   *)
(* own tool-catalog call, so a request never has more provider requests    *)
(* than catalog calls.                                                     *)
C27_FetchPerIteration ==
    \A r \in Requests : Len(provLog[r]) <= listCalls[r]

(* The handler calls the catalog at most once per request, before its      *)
(* first provider request, and every provider request carries the one      *)
(* list that call left in tools.                                           *)
C27_OnceInv ==
    \A r \in Requests :
        /\ listCalls[r] <= 1
        /\ provLog[r] # <<>> => listCalls[r] = 1
        /\ \A i \in 1..Len(provLog[r]) :
              provLog[r][i] = Dat1RequestBody(provLog[r][i].messages, tools[r])

(* A catalog call of the handler is the step that takes the request in;    *)
(* the list in tools is not replaced once a provider request was made.     *)
C27_OnceStep ==
    \A r \in Requests :
        /\ listCalls'[r] # listCalls[r] => (pc[r] = "idle" /\ provLog[r] = <<>>)
        /\ provLog[r] # <<>> => tools'[r] = tools[r]

(* C27: the tool catalog is fetched (best-effort) once per request, before *)
(* the first iteration of the loop; every provider request of the request  *)
(* carries the tool list that this one call returned, and no iteration     *)
(* makes a catalog call of its own.                                        *)
C27_FetchedOncePerRequest == []C27_OnceInv /\ [][C27_OnceStep]_vars

(* A request made two provider requests after its one catalog call, which  *)
(* returned a non-empty list.                                              *)
C27_Witness ==
    \E r \in Requests :
        /\ Len(provLog[r]) >= 2
        /\ listCalls[r] = 1
        /\ tools[r] # <<>>
        /\ provLog[r][2].tools = Some(tools[r])


(* A request that is over has a closed response whose last event is the    *)
(* end sentinel or the one error event, and no request leaves the handler  *)
(* by an exception.                                                        *)
C28_TerminalInv ==
    \A r \in Requests :
        /\ pc[r] # "escaped"
        /\ pc[r] = "done" =>
              /\ ended[r]
              /\ out[r] # <<>>
              /\ out[r][Len(out[r])].k \in {"done", "error"}
              /\ Cardinality({i \in 1..Len(out[r]) : out[r][i].k = "error"})
                    = IF out[r][Len(out[r])].k = "error" THEN 1 ELSE 0

(* A closed response stays closed and nothing is written to it. *)
C28_ClosedStep ==
    \A r \in Requests : ended[r] => (ended'[r] /\ out'[r] = out[r])

(* C28: given that every provider call, provider stream and tool RPC       *)
(* completes or fails, every request reaches a terminal state with the     *)
(* response closed once and nothing written after the close; the last      *)
(* event is the end sentinel or a single error event, and no request       *)
(* hangs or escapes the handler.                                           *)
C28_EveryRequestTerminates ==
    /\ []C28_TerminalInv
    /\ [][C28_ClosedStep]_vars
    /\ <>(pc["r1"] = "done" /\ ended["r1"])


(* C30: tool calls are executed only in a round that a provider request    *)
(* follows, and when the request is over the last provider request has     *)
(* carried every message of the conversation, the tool messages of every   *)
(* executed batch among them.                                              *)
C30_ExecutedResultsDelivered ==
    \A r \in Requests :
        /\ pc[r] = "executing" => LoopContinues(iterationCount[r])
        /\ (pc[r] = "done" /\ provLog[r] # <<>>) =>
              \A i \in ToolPositions(conv[r]) :
                  /\ i <= Len(provLog[r][Len(provLog[r])].messages)
                  /\ provLog[r][Len(provLog[r])].messages[i] = conv[r][i]

====
